---------------------------- MODULE Spec2Model ----------------------------
(***************************************************************************)
(* business_rules engine: run_all / run / check_conditions_recursively /   *)
(* check_condition / do_actions, as a state machine over the caller's rule *)
(* list.  Python dicts are objects: the model keeps their identity (a      *)
(* small heap during condition evaluation, the rule's own params dicts in  *)
(* the variable `rules`) so that in-place updates are visible.             *)
(***************************************************************************)
EXTENDS Integers, Sequences, FiniteSets, TLC

VARIABLES
    rules0,     \* the rule list as the caller wrote it (never assigned again)
    rules,      \* the rule list object the engine is given (its dicts are live objects)
    active,     \* the threads that call the engine
    pc,         \* per thread: position in the engine's code
    call,       \* per thread: the outermost call and its inputs
    frame,      \* per thread: the local variables of run_all / run / do_actions
    log,        \* per thread: what the providers and the engine's callees observed
    outcome,    \* per thread: how the outermost call ended
    pre,        \* per thread: the rule list as it was when the outermost call began
    members,    \* the provider class being written: member name -> function object
    phase,      \* "body" while the class statement runs, "class" once it exists
    catalog,    \* what the last get_all_actions / get_all_variables call returned
    data,       \* the data the body of a variable function reads
    returns     \* the values the calls of the decorated functions returned, in order

engine == <<rules0, rules, active, pc, call, frame, log, outcome, pre>>
registry == <<members, phase, catalog, data, returns>>
vars == <<rules0, rules, active, pc, call, frame, log, outcome, pre,
          members, phase, catalog, data, returns>>

-----------------------------------------------------------------------------
(* Bounds of the model *)

MaxChildren == 2    \* children of an all/any node built from leaves
MaxActions == 3     \* actions of a rule
MaxRules == 2       \* rules of a rule list

Threads == {1, 2}

-----------------------------------------------------------------------------
(* Python values *)

PyNone == [tag |-> "none"]
PyList == [tag |-> "list"]                      \* some non-empty list, e.g. [1, 2, 3]
PyBool(b) == [tag |-> "bool", v |-> b]
PyInt(n) == [tag |-> "int", v |-> n]
PyDict(d) == [tag |-> "dict", d |-> d]
PyTuple(v, o) == [tag |-> "tuple", val |-> v, ov |-> o]
(* a sequence-valued raw value: a Python list or a Python tuple of numbers *)
PyRawSeq(py, elems) == [tag |-> "seq", py |-> py, elems |-> elems]

(* A dict is the sequence of its <<key, value>> items in insertion order. *)
EmptyDict == <<>>
Item(k, v) == <<k, v>>
DictKeys(d) == {d[i][1] : i \in DOMAIN d}
DictGet(d, k) == d[CHOOSE i \in DOMAIN d : d[i][1] = k][2]

(* d[k] = v : an existing key keeps its place, a new key goes last *)
DictSet(d, k, v) ==
    IF k \in DictKeys(d)
    THEN [i \in DOMAIN d |-> IF d[i][1] = k THEN Item(k, v) ELSE d[i]]
    ELSE Append(d, Item(k, v))

RECURSIVE UpdateLeftBiased(_, _)
UpdateLeftBiased(d, e) ==
    IF e = <<>> THEN d
    ELSE UpdateLeftBiased(
            IF Head(e)[1] \in DictKeys(d) THEN d ELSE Append(d, Head(e)), Tail(e))

(* d.update(e), and {**d, **e} on a copy of d *)
RECURSIVE DictUpdate(_, _)
DictUpdate(d, e) ==
    IF e = <<>> THEN d
    ELSE DictUpdate(DictSet(d, Head(e)[1], Head(e)[2]), Tail(e))

(* Python truthiness of the values the engine tests with `or` / `and` *)
Truthy(x) ==
    CASE x.tag = "none" -> FALSE
      [] x.tag = "dict" -> x.d # <<>>
      [] x.tag = "bool" -> x.v
      [] x.tag = "int" -> x.v # 0
      [] x.tag = "seq" -> x.elems # <<>>
      [] x.tag = "str" -> x.s # <<>>
      [] OTHER -> TRUE

IsDict(x) == x.tag = "dict"

(* isinstance(x, tuple): a (value, overrides) pair, or a raw value that is a tuple *)
IsTuple(x) == x.tag = "tuple" \/ (x.tag = "seq" /\ x.py = "tuple")


-----------------------------------------------------------------------------
(* The providers.  The variable provider class has two decorated methods;   *)
(* what a handler returns at a call is an input of that call (venv).        *)

VariablesClass == "SomeVariables"
ActionsClass == "SomeActions"

(* name -> field_type of the rule variables defined on the class *)
VariableKinds ==
    [a_bool |-> "boolean", a_num |-> "numeric", a_multi |-> "select_multiple",
     a_req |-> "boolean", a_kw |-> "boolean"]

(* name -> the keyword arguments the handler's signature names *)
VariableParams ==
    [a_bool |-> {}, a_num |-> {"p"}, a_multi |-> {}, a_req |-> {"q"}, a_kw |-> {}]

(* name -> the named arguments of the signature that have no default value: *)
(* `def a_req(self, q)`, while a_num is `def a_num(self, p=None)`           *)
VariableRequired ==
    [a_bool |-> {}, a_num |-> {}, a_multi |-> {}, a_req |-> {"q"}, a_kw |-> {}]

(* the handlers declared with a keyword dictionary, `def a_kw(self, **params)`, *)
(* and the keys the body of such a handler reads by subscript, `params['q']`    *)
VariableKeywords == {"a_kw"}
VariableReads ==
    [a_bool |-> {}, a_num |-> {}, a_multi |-> {}, a_req |-> {}, a_kw |-> {"q"}]

(* name -> what the action handler returns *)
ActionReturns ==
    [ret_none |-> PyNone,
     ret_list |-> PyList,
     ret_a |-> PyDict(<<Item("a", 3)>>),
     ret_b |-> PyDict(<<Item("b", 3)>>)]

(* the attributes a provider has that no decorator marked: the class methods *)
(* get_all_variables and get_all_actions every provider inherits from its    *)
(* base class; both take no argument besides the class and return a list     *)
UnmarkedVariableAttributes == {"get_all_variables"}
UnmarkedActionAttributes == {"get_all_actions"}

(* getattr(defined_variables, name, fallback) / getattr(defined_actions,     *)
(* method_name, fallback) finds an attribute: the fallback is not taken      *)
HasVariableAttribute(name) == name \in DOMAIN VariableKinds \cup UnmarkedVariableAttributes
HasActionAttribute(name) == name \in DOMAIN ActionReturns \cup UnmarkedActionAttributes

NoExc == [type |-> "none"]
UndefinedVariableUnnamed(name) ==
    [type |-> "AssertionError", what |-> "Variable", name |-> "", cls |-> VariablesClass]
UndefinedVariable(name) ==
    [type |-> "AssertionError", what |-> "Variable", name |-> name, cls |-> VariablesClass]
UndefinedOperator(op, kind) ==
    [type |-> "AssertionError", what |-> "Operator", name |-> op, cls |-> kind]
UndefinedActionWrongClass(name) ==
    [type |-> "AssertionError", what |-> "Action", name |-> name, cls |-> VariablesClass]
UndefinedAction(name) ==
    [type |-> "AssertionError", what |-> "Action", name |-> name, cls |-> ActionsClass]
AssertFailed == [type |-> "AssertionError", what |-> "assert"]
ParamsTypeError == [type |-> "TypeError", what |-> "Variable params object has to be of dict type!"]
MissingKey(k) == [type |-> "KeyError", what |-> k]
MissingParam(k) ==
    [type |-> "KeyError", what |-> "Expected params were not provided!", name |-> k]
(* calling an attribute that is not callable; dict.update with a non-iterable; *)
(* unpacking a tuple that has not two elements                                *)
NotCallable == [type |-> "TypeError", what |-> "object is not callable"]
NotIterable == [type |-> "TypeError", what |-> "object is not iterable"]
UnpackError == [type |-> "ValueError", what |-> "values to unpack (expected 2)"]
(* `method.field_type` on a method that no rule_variable decorator has marked; *)
(* a keyword argument given to a method that takes none                        *)
NoFieldType == [type |-> "AttributeError", what |-> "field_type"]
UnexpectedKeyword == [type |-> "TypeError", what |-> "got an unexpected keyword argument"]

-----------------------------------------------------------------------------
(* Typed values and their operators *)

TypedValue(kind, raw) == [kind |-> kind, value |-> raw]

OperatorSet(kind) ==
    CASE kind = "boolean" -> {"is_true", "is_false"}
      [] kind = "numeric" -> {"equal_to", "greater_than", "less_than"}
      [] kind = "select_multiple" -> {"contains_all", "shares_no_elements_with"}
      [] OTHER -> {}

(* the attributes every typed value has besides its operators: it is a Python *)
(* object, and the docstring attribute of an object is None or a string       *)
ObjectAttributes == {"__doc__"}

NoInputOperators == {"is_true", "is_false", "non_empty"}

(* the operator method `op` of the typed value invoked with the arguments args *)
ApplyOperator(typed, op, args) ==
    CASE op = "is_true" -> typed.value.v
      [] op = "is_false" -> ~typed.value.v
      [] op = "equal_to" -> typed.value.v = args[1]
      [] op = "greater_than" -> typed.value.v > args[1]
      [] op = "less_than" -> typed.value.v < args[1]
      [] op = "contains_all" ->
            \A i \in DOMAIN args[1] : \E j \in DOMAIN typed.value.elems :
                typed.value.elems[j] = args[1][i]
      [] op = "shares_no_elements_with" ->
            \A i \in DOMAIN args[1] : \A j \in DOMAIN typed.value.elems :
                typed.value.elems[j] # args[1][i]

-----------------------------------------------------------------------------
(* Condition evaluation.  m = [heap, log]: heap is the sequence of the dict *)
(* objects alive during the evaluation (a reference is an index, 0 is None) *)
(* and log the handler invocations so far.                                  *)

Alloc(heap, d) == Append(heap, d)

Raise(e, m) == [exc |-> e, met |-> FALSE, ref |-> 0, heap |-> m.heap, log |-> m.log]
Return(met, ref, m) == [exc |-> NoExc, met |-> met, ref |-> ref, heap |-> m.heap, log |-> m.log]

(* override_params = override_params or {} *)
OrEmptyHeap(ref, m) ==
    IF ref = 0 \/ m.heap[ref] = EmptyDict THEN Alloc(m.heap, EmptyDict) ELSE m.heap
OrEmptyRef(ref, m) ==
    IF ref = 0 \/ m.heap[ref] = EmptyDict THEN Len(m.heap) + 1 ELSE ref

(* what an observer of the evaluation sees: check_condition entered for the    *)
(* leaf at `path` with these override_params, a variable handler invoked       *)
LeafEvent(rule, path, incoming) ==
    [ev |-> "leaf", rule |-> rule, path |-> path, incoming |-> incoming]
VarEvent(rule, path, name, params) ==
    [ev |-> "var", rule |-> rule, path |-> path, name |-> name, params |-> params]
(* check_conditions_recursively entered for the node at `path`, whose keys are these *)
NodeEvent(rule, path, keys) == [ev |-> "node", rule |-> rule, path |-> path, keys |-> keys]
(* _get_variable_value_and_actions_params returned: what it wrapped as the typed *)
(* value and what it returned as the override params; ref is the dict object   *)
(* the handler itself returned when that object is what is handed on (0 when  *)
(* the `or {}` of line 125 made a new one)                                     *)
ResolvedEvent(rule, path, name, wrapped, ov, ref) ==
    [ev |-> "resolved", rule |-> rule, path |-> path, name |-> name,
     wrapped |-> wrapped, ov |-> ov, ref |-> ref]
(* an operator method of the typed value was invoked with these arguments *)
CmpEvent(rule, path, operator, args, result) ==
    [ev |-> "cmp", rule |-> rule, path |-> path, operator |-> operator,
     args |-> args, result |-> result]

(* `(val, override_params) = method_result` / `val, override_params = method_result, None` *)
SplitValue(method_result) ==
    IF method_result.tag = "tuple" THEN method_result.val
    ELSE IF IsTuple(method_result) THEN PyInt(method_result.elems[1])
    ELSE method_result
SplitOverrides(method_result) ==
    IF method_result.tag = "tuple" THEN method_result.ov
    ELSE IF IsTuple(method_result) THEN PyInt(method_result.elems[2])
    ELSE PyNone

(* calling the method with params as keyword arguments binds them to the     *)
(* handler's signature:                                                       *)
(* a keyword the signature does not take, or a named argument without default *)
(* that is not given, is a TypeError of the call                              *)
BindsTo(name, keys) ==
    /\ name \in VariableKeywords \/ keys \subseteq VariableParams[name]
    /\ VariableRequired[name] \subseteq keys

_get_variable_value_and_actions_params(venv, name, params, rule, path, m) ==
    IF ~IsDict(params) THEN Raise(ParamsTypeError, m)
    ELSE IF ~HasVariableAttribute(name) THEN Raise(UndefinedVariable(name), m)
    ELSE IF name \in UnmarkedVariableAttributes
    THEN \* the unmarked method is called like any other; its result has no field_type
         IF params.d # EmptyDict THEN Raise(ParamsTypeError, m)
         ELSE Raise(NoFieldType,
                    [heap |-> m.heap, log |-> Append(m.log, VarEvent(rule, path, name, params.d))])
    ELSE IF ~BindsTo(name, DictKeys(params.d)) THEN Raise(ParamsTypeError, m)
    ELSE
      LET method_result == venv[name]
          called == Append(m.log, VarEvent(rule, path, name, params.d))
          unread == VariableReads[name] \ DictKeys(params.d)
      IN
      \* the handler's body raised KeyError: `except KeyError as ex`
      IF unread # {}
      THEN Raise(MissingParam(CHOOSE k \in unread : TRUE), [heap |-> m.heap, log |-> called])
      ELSE IF method_result.tag = "seq" /\ IsTuple(method_result) /\ Len(method_result.elems) # 2
      THEN Raise(UnpackError, [heap |-> m.heap, log |-> called])
      ELSE
        LET val == SplitValue(method_result)
            split == SplitOverrides(method_result)
            \* override_params = override_params or {}
            ov == IF Truthy(split) THEN split ELSE PyDict(EmptyDict)
            \* the dict object the handler returned, or the fresh {} of line 125
            heap2 == IF IsDict(ov) THEN Alloc(m.heap, ov.d) ELSE m.heap
        IN [exc |-> NoExc, typed |-> TypedValue(VariableKinds[name], val), ov |-> ov,
            ref |-> IF IsDict(ov) THEN Len(heap2) ELSE 0, heap |-> heap2,
            log |-> Append(called,
                           ResolvedEvent(rule, path, name, val, ov,
                                         IF Truthy(split) /\ IsDict(ov) THEN Len(heap2)
                                         ELSE 0))]

(* getattr(method, 'input_type', '') == FIELD_NO_INPUT *)
TakesNoInputNever(operator_name) == FALSE
TakesNoInput(operator_name) == operator_name \in NoInputOperators

_do_operator_comparison(operator_type, operator_name, comparison_value) ==
    IF operator_name \notin OperatorSet(operator_type.kind) \cup ObjectAttributes
    THEN [exc |-> UndefinedOperator(operator_name, operator_type.kind),
          result |-> FALSE, args |-> <<>>]
    ELSE IF operator_name \in ObjectAttributes
    THEN [exc |-> NotCallable, result |-> FALSE, args |-> <<>>]
    ELSE IF TakesNoInput(operator_name)
    THEN [exc |-> NoExc, args |-> <<>>,
          result |-> ApplyOperator(operator_type, operator_name, <<>>)]
    ELSE [exc |-> NoExc, args |-> <<comparison_value>>,
          result |-> ApplyOperator(operator_type, operator_name, <<comparison_value>>)]

LeafFields == {"name", "operator", "value"}

(* the params check_condition passes to the variable handler *)
HandlerParamsWithOverrides(params, override_params) ==
    IF IsDict(params) THEN PyDict(DictUpdate(params.d, override_params)) ELSE params
HandlerParams(params, override_params) == params

(* condition.get('params', {}) *)
LeafParamsDropped(condition) == PyDict(EmptyDict)
LeafParams(condition) ==
    IF "params" \in DOMAIN condition THEN condition.params ELSE PyDict(EmptyDict)

check_condition(condition, venv, ovref, rule, path, m) ==
    LET heap1 == OrEmptyHeap(ovref, m)
        ref == OrEmptyRef(ovref, m)
        m1 == [heap |-> heap1, log |-> Append(m.log, LeafEvent(rule, path, heap1[ref]))]
    IN
    IF ~(LeafFields \subseteq DOMAIN condition)
    THEN Raise(MissingKey(IF "name" \notin DOMAIN condition THEN "name"
                          ELSE IF "operator" \notin DOMAIN condition THEN "operator"
                          ELSE "value"), m1)
    ELSE
      LET params == LeafParams(condition)
          g == _get_variable_value_and_actions_params(
                   venv, condition.name, HandlerParams(params, heap1[ref]), rule, path, m1)
      IN
      IF g.exc # NoExc THEN Raise(g.exc, [heap |-> g.heap, log |-> g.log])
      ELSE IF ~IsDict(g.ov) THEN Raise(NotIterable, [heap |-> g.heap, log |-> g.log])
      ELSE
        LET heap2 == [g.heap EXCEPT ![ref] = DictUpdate(g.heap[ref], g.heap[g.ref])]
            c == _do_operator_comparison(g.typed, condition.operator, condition.value)
        IN IF c.exc # NoExc THEN Raise(c.exc, [heap |-> heap2, log |-> g.log])
           ELSE Return(c.result, ref,
                       [heap |-> heap2,
                        log |-> Append(g.log, CmpEvent(rule, path, condition.operator,
                                                       c.args, c.result))])

(* `if not conditions_met: return False` in the all loop *)
AllStopsNever(conditions_met) == FALSE
AllStops(conditions_met) == ~conditions_met

(* `if conditions_met: return True` in the any loop *)
AnyStopsNever(conditions_met) == FALSE
AnyStops(conditions_met) == conditions_met

(* `assert len(conditions['all']) >= 1`, `assert len(conditions['any']) >= 1` *)
NonEmptyUnchecked(children) == TRUE
NonEmpty(children) == Len(children) >= 1

(* `assert not ('any' in keys or 'all' in keys)` fails *)
MixedKeysAccepted(keys) == FALSE
MixedKeys(keys) == "any" \in keys \/ "all" \in keys

(* `override_params.update(overrides)`, which precedes the test of the child's *)
(* result in both loops; stops: the loop returns at this child                *)
MergeUnlessStops(stops, override_params, overrides) ==
    IF stops THEN override_params ELSE DictUpdate(override_params, overrides)
MergeChild(stops, override_params, overrides) == DictUpdate(override_params, overrides)

RECURSIVE check_conditions_recursively(_, _, _, _, _, _)
RECURSIVE AllLoop(_, _, _, _, _, _, _)
RECURSIVE AnyLoop(_, _, _, _, _, _, _)

(* for condition in conditions['all']: ...  from the i-th child on *)
AllLoop(children, i, venv, ref, rule, path, m) ==
    IF i > Len(children) THEN Return(TRUE, ref, m)
    ELSE
      LET r == check_conditions_recursively(children[i], venv, ref, rule, Append(path, i), m)
      IN
      IF r.exc # NoExc THEN r
      ELSE
        LET heap2 == [r.heap EXCEPT
                         ![ref] = MergeChild(AllStops(r.met), r.heap[ref], r.heap[r.ref])]
            m2 == [heap |-> heap2, log |-> r.log]
        IN IF AllStops(r.met) THEN Return(FALSE, ref, m2)
           ELSE AllLoop(children, i + 1, venv, ref, rule, path, m2)

(* for condition in conditions['any']: ...  from the i-th child on *)
AnyLoop(children, i, venv, ref, rule, path, m) ==
    IF i > Len(children) THEN Return(FALSE, ref, m)
    ELSE
      LET r == check_conditions_recursively(children[i], venv, ref, rule, Append(path, i), m)
      IN
      IF r.exc # NoExc THEN r
      ELSE
        LET heap2 == [r.heap EXCEPT
                         ![ref] = MergeChild(AnyStops(r.met), r.heap[ref], r.heap[r.ref])]
            m2 == [heap |-> heap2, log |-> r.log]
        IN IF AnyStops(r.met) THEN Return(TRUE, ref, m2)
           ELSE AnyLoop(children, i + 1, venv, ref, rule, path, m2)

check_conditions_recursively(conditions, venv, ovref, rule, path, m) ==
    LET heap1 == OrEmptyHeap(ovref, m)
        ref == OrEmptyRef(ovref, m)
        keys == DOMAIN conditions
        m1 == [heap |-> heap1, log |-> Append(m.log, NodeEvent(rule, path, keys))]
    IN
    IF keys = {"all"}
    THEN IF ~NonEmpty(conditions.all) THEN Raise(AssertFailed, m1)
         ELSE AllLoop(conditions.all, 1, venv, ref, rule, path, m1)
    ELSE IF keys = {"any"}
    THEN IF ~NonEmpty(conditions.any) THEN Raise(AssertFailed, m1)
         ELSE AnyLoop(conditions.any, 1, venv, ref, rule, path, m1)
    ELSE IF MixedKeys(keys) THEN Raise(AssertFailed, m1)
    ELSE check_condition(conditions, venv, ref, rule, path, m1)


-----------------------------------------------------------------------------
(* Inputs: leaves, condition trees, handler behaviours, action lists        *)

Leaf(name, op, value) == [name |-> name, operator |-> op, value |-> value]

LBool == Leaf("a_bool", "is_true", 0)
LNum == Leaf("a_num", "greater_than", 1)
Leaves == {LBool, LNum}

AllOf(children) == [all |-> children]
AnyOf(children) == [any |-> children]

SeqsUpTo(S, n) == UNION {[1..k -> S] : k \in 1..n}

(* combinators over leaves, and one level of nesting next to a leaf *)
Trees1 == {AllOf(cs) : cs \in SeqsUpTo(Leaves, MaxChildren)}
              \cup {AnyOf(cs) : cs \in SeqsUpTo(Leaves, MaxChildren)}
Trees2 == UNION {{AllOf(<<c, LBool>>), AllOf(<<LBool, c>>),
                  AnyOf(<<c, LBool>>), AnyOf(<<LBool, c>>)} : c \in Trees1}

(* malformed nodes and leaves the provider cannot serve *)
LUndefinedVar == Leaf("a_missing", "is_true", 0)
LUndefinedOp == Leaf("a_bool", "is_bogus", 0)
LNoValue == [name |-> "a_bool", operator |-> "is_true"]
BadTrees ==
    {AllOf(<<>>), AnyOf(<<>>), [all |-> <<LBool>>, any |-> <<LBool>>],
     LUndefinedVar, LUndefinedOp, LNoValue,
     AllOf(<<LBool, LUndefinedVar>>), AnyOf(<<LBool, LUndefinedOp>>),
     AllOf(<<LNum, AnyOf(<<>>)>>)}

(* a leaf with params of its own, the same no-input operator with another     *)
(* literal, a select-multiple leaf, an operator name that is an attribute of   *)
(* every object, and a combinator key next to leaf fields                     *)
LParam ==
    [name |-> "a_num", operator |-> "greater_than", value |-> 1,
     params |-> PyDict(<<Item("p", 1)>>)]
LBoolLit == Leaf("a_bool", "is_true", 1)
LMulti == Leaf("a_multi", "contains_all", <<1>>)
LAttrOp == Leaf("a_bool", "__doc__", 0)
MixedLeaf == [all |-> <<LBool>>, name |-> "a_bool", operator |-> "is_true", value |-> 0]
LNoName == [operator |-> "is_true", value |-> 0]
MoreTrees ==
    {LParam, AllOf(<<LBool, LParam>>), LBoolLit, LMulti, AnyOf(<<LMulti, LBool>>),
     LAttrOp, AllOf(<<LNum, LAttrOp>>), MixedLeaf,
     AnyOf(<<LBool, [all |-> <<LBool>>, any |-> <<LBool>>]>>),
     AnyOf(<<LBool, AllOf(<<>>)>>), AnyOf(<<LBool, LNoName>>)}

(* leaves whose handler needs a named argument: declared in the signature     *)
(* (absent, given) or read from the keyword dictionary (absent, given); params *)
(* that is no mapping; a keyword the handler does not take                     *)
WithParams(leaf, params) ==
    [name |-> leaf.name, operator |-> leaf.operator, value |-> leaf.value, params |-> params]
LReq == Leaf("a_req", "is_true", 0)
LReqGiven == WithParams(LReq, PyDict(<<Item("q", 1)>>))
LKw == Leaf("a_kw", "is_true", 0)
LKwGiven == WithParams(LKw, PyDict(<<Item("q", 1)>>))
LParamsList == WithParams(LNum, PyList)
LParamsUnknown == WithParams(LBool, PyDict(<<Item("p", 1)>>))
ParamTrees ==
    {LReq, LReqGiven, LKw, LKwGiven, LParamsList, LParamsUnknown,
     AllOf(<<LNum, LReq>>), AnyOf(<<LBool, LKw, LBool>>), AllOf(<<LReqGiven, LParamsList, LBool>>)}

Trees == Leaves \cup Trees1 \cup Trees2 \cup BadTrees \cup MoreTrees \cup ParamTrees

RECURSIVE VariablesOf(_)
VariablesOf(node) ==
    IF "all" \in DOMAIN node /\ "any" \in DOMAIN node
        THEN UNION {VariablesOf(node.all[i]) : i \in DOMAIN node.all}
                \cup UNION {VariablesOf(node.any[i]) : i \in DOMAIN node.any}
    ELSE IF "all" \in DOMAIN node THEN UNION {VariablesOf(node.all[i]) : i \in DOMAIN node.all}
    ELSE IF "any" \in DOMAIN node THEN UNION {VariablesOf(node.any[i]) : i \in DOMAIN node.any}
    ELSE IF "name" \in DOMAIN node THEN {node.name}
    ELSE {}

(* what a handler may return: a bare raw value or a (raw value, overrides) pair *)
BoolResults ==
    {PyBool(b) : b \in BOOLEAN}
        \cup {PyTuple(PyBool(b), PyDict(<<Item("a", 1)>>)) : b \in BOOLEAN}
NumResults ==
    {PyInt(n) : n \in 1..2}
        \cup {PyTuple(PyInt(n), PyDict(<<Item("a", 2), Item("b", 2)>>)) : n \in 1..2}

(* a select-multiple handler: a bare list, a bare tuple, or a pair whose second *)
(* element is a mapping, an empty mapping or None                              *)
MultiResults ==
    {PyRawSeq("list", <<1, 2>>), PyRawSeq("tuple", <<1, 2>>),
     PyTuple(PyRawSeq("list", <<1, 2>>), PyDict(<<Item("a", 1)>>)),
     PyTuple(PyRawSeq("list", <<2>>), PyDict(EmptyDict)),
     PyTuple(PyRawSeq("list", <<1, 2>>), PyNone)}

HandlerResults ==
    [a_bool |-> BoolResults, a_num |-> NumResults, a_multi |-> MultiResults,
     a_req |-> {PyBool(TRUE)}, a_kw |-> {PyBool(TRUE)}]

DefaultEnv ==
    [a_bool |-> PyBool(FALSE), a_num |-> PyInt(1), a_multi |-> PyRawSeq("list", <<1, 2>>),
     a_req |-> PyBool(TRUE), a_kw |-> PyBool(TRUE)]

(* the handler behaviours that differ on the variables a call can reach *)
VarEnvs(names) ==
    LET Choices(v) == IF v \in names THEN HandlerResults[v] ELSE {DefaultEnv[v]}
    IN [a_bool : Choices("a_bool"), a_num : Choices("a_num"), a_multi : Choices("a_multi"),
        a_req : Choices("a_req"), a_kw : Choices("a_kw")]

(* override params a caller may pass in directly *)
OverrideInputs ==
    {PyNone, PyDict(EmptyDict), PyDict(<<Item("a", 2)>>), PyDict(<<Item("b", 2)>>)}

Action(name, params) == [name |-> name, params |-> params]
ActionItems ==
    {[name |-> "ret_none"],
     Action("ret_a", PyDict(<<Item("a", 1)>>)),
     Action("ret_b", PyDict(<<Item("b", 1)>>))}

ActionLists == {<<>>} \cup SeqsUpTo(ActionItems, MaxActions)

(* the action list of test_do_actions_with_returned_values *)
ReturnedValuesActions ==
    <<[name |-> "ret_b"],
      Action("ret_list", PyDict(<<Item("a", 1), Item("b", 1)>>)),
      Action("ret_a", PyDict(<<Item("a", 1)>>)),
      Action("ret_none", PyDict(<<Item("a", 1)>>))>>

(* action lists with a name the action provider does not define *)
UndefinedActionLists ==
    {<<Action("ret_a", PyDict(<<Item("a", 1)>>)), [name |-> "not_defined"],
       Action("ret_b", PyDict(<<Item("b", 1)>>))>>,
     <<[name |-> "ret_b"], Action("ret_a", PyDict(<<Item("a", 1)>>)),
       Action("not_defined", PyDict(<<Item("a", 1)>>))>>}

Rule(conditions, actions) == [conditions |-> conditions, actions |-> actions]

(* rules whose evaluation can end in an error before its last leaf, with an    *)
(* action to dispatch: an undefined variable, an undefined operator, params    *)
(* that is no mapping, an empty combinator                                     *)
ErrorRules ==
    {Rule(c, <<Action("ret_a", PyDict(<<Item("a", 1)>>))>>) :
        c \in {AnyOf(<<LBool, LUndefinedVar, LNum>>), AllOf(<<LNum, LUndefinedOp, LBool>>),
               AnyOf(<<LParamsList, LBool>>), AnyOf(<<LBool, AllOf(<<>>), LNum>>)}}

SmallRules ==
    {Rule(LBool, <<Action("ret_a", PyDict(<<Item("b", 1)>>))>>),
     Rule(LNum, <<[name |-> "ret_none"]>>),
     Rule(AnyOf(<<LBool, LUndefinedVar>>), <<[name |-> "not_defined"]>>)}

(* rule lists: one rule with any tree, one rule with any action list, and   *)
(* lists of several small rules                                             *)
RuleLists ==
    {<<Rule(c, <<>>)>> : c \in Trees}
        \cup {<<Rule(LBool, a)>> :
                    a \in ActionLists \cup {ReturnedValuesActions} \cup UndefinedActionLists}
        \cup {<<r>> : r \in ErrorRules}
        \cup UNION {[1..n -> SmallRules] : n \in 2..MaxRules}

-----------------------------------------------------------------------------
(* The engine's control state *)

NoCall == [op |-> "none", stop |-> FALSE, rule |-> 0, venv |-> DefaultEnv, ov |-> PyNone]
NoOutcome == [kind |-> "none"]
Returned(v) == [kind |-> "return", value |-> v]
Raised(e) == [kind |-> "raise", exc |-> e]

IdleFrame ==
    [idx |-> 0, rule_was_triggered |-> FALSE, rule |-> 0, override_params |-> EmptyDict,
     k |-> 0, returned_values |-> PyNone, params |-> EmptyDict, alias |-> FALSE]

EvalEvent(rule, incoming) == [ev |-> "eval", rule |-> rule, incoming |-> incoming]
DispatchEvent(rule, ov) == [ev |-> "dispatch", rule |-> rule, ov |-> ov]
ActEvent(rule, k, name, params, carried) ==
    [ev |-> "act", rule |-> rule, k |-> k, name |-> name, params |-> params, carried |-> carried]

RECURSIVE AllVariables(_)
AllVariables(rule_list) ==
    IF rule_list = <<>> THEN {}
    ELSE VariablesOf(Head(rule_list).conditions) \cup AllVariables(Tail(rule_list))

(* no provider class is being written and no decorated function is called *)
NoClass ==
    /\ members = <<>>
    /\ phase = "class"
    /\ catalog = [of |-> "none", entries |-> <<>>]
    /\ data = 1
    /\ returns = <<>>

Init ==
    /\ rules0 \in RuleLists
    /\ rules = rules0
    /\ active = {1}
    /\ pc = [t \in Threads |-> "idle"]
    /\ call = [t \in Threads |-> NoCall]
    /\ frame = [t \in Threads |-> IdleFrame]
    /\ log = [t \in Threads |-> <<>>]
    /\ outcome = [t \in Threads |-> NoOutcome]
    /\ pre = [t \in Threads |-> <<>>]
    /\ NoClass

CanCall(t) == t \in active /\ pc[t] = "idle"

Begin(t, c, f, at, events) ==
    /\ call' = [call EXCEPT ![t] = c]
    /\ frame' = [frame EXCEPT ![t] = f]
    /\ pc' = [pc EXCEPT ![t] = at]
    /\ log' = [log EXCEPT ![t] = events]
    /\ outcome' = [outcome EXCEPT ![t] = NoOutcome]
    /\ pre' = [pre EXCEPT ![t] = rules]
    /\ UNCHANGED <<rules0, rules, active>>
    /\ UNCHANGED registry

(* the caller invokes run_all(rule_list, variables, actions, stop_on_first_trigger) *)
CallRunAll(t) ==
    /\ CanCall(t)
    /\ \E stop \in BOOLEAN, venv \in VarEnvs(AllVariables(rules)) :
         Begin(t, [op |-> "run_all", stop |-> stop, rule |-> 0, venv |-> venv, ov |-> PyNone],
               [IdleFrame EXCEPT !.idx = 1], "run_all_loop", <<>>)

(* the caller invokes run(rule, variables, actions) *)
CallRun(t) ==
    /\ CanCall(t)
    /\ \E i \in DOMAIN rules :
       \E venv \in VarEnvs(VariablesOf(rules[i].conditions)) :
         Begin(t, [op |-> "run", stop |-> FALSE, rule |-> i, venv |-> venv, ov |-> PyNone],
               [IdleFrame EXCEPT !.rule = i], "run_enter", <<>>)

(* override_params = override_params or {} on entry of do_actions *)
OrEmptyDict(ov) == IF Truthy(ov) THEN ov.d ELSE EmptyDict

(* the caller invokes do_actions(actions, defined_actions, override_params) *)
CallDoActions(t) ==
    /\ CanCall(t)
    /\ \E i \in DOMAIN rules, ov \in OverrideInputs :
         Begin(t, [op |-> "do_actions", stop |-> FALSE, rule |-> i, venv |-> DefaultEnv, ov |-> ov],
               [IdleFrame EXCEPT !.rule = i, !.k = 1, !.override_params = OrEmptyDict(ov)],
               "do_actions_loop", <<DispatchEvent(i, OrEmptyDict(ov))>>)

(* the caller invokes check_conditions_recursively(conditions, variables, override_params) *)
CallCheck(t) ==
    /\ CanCall(t)
    /\ \E i \in DOMAIN rules, ov \in OverrideInputs :
       \E venv \in VarEnvs(VariablesOf(rules[i].conditions)) :
         LET m0 == [heap |-> IF ov = PyNone THEN <<>> ELSE <<ov.d>>, log |-> <<>>]
             r == check_conditions_recursively(rules[i].conditions, venv,
                                               IF ov = PyNone THEN 0 ELSE 1, i, <<>>, m0)
             after == IF ov = PyNone THEN PyNone ELSE PyDict(r.heap[1])
         IN
         /\ call' = [call EXCEPT ![t] =
                        [op |-> "check", stop |-> FALSE, rule |-> i, venv |-> venv, ov |-> ov]]
         /\ frame' = [frame EXCEPT ![t] = [IdleFrame EXCEPT !.rule = i]]
         /\ log' = [log EXCEPT ![t] = <<EvalEvent(i, ov)>> \o r.log]
         /\ outcome' = [outcome EXCEPT ![t] =
                          IF r.exc # NoExc
                          THEN [kind |-> "raise", exc |-> r.exc, caller |-> after,
                                heap |-> r.heap]
                          ELSE [kind |-> "return",
                                value |-> PyTuple(PyBool(r.met), PyDict(r.heap[r.ref])),
                                caller |-> after, heap |-> r.heap]]
         /\ pc' = [pc EXCEPT ![t] = "done"]
         /\ pre' = [pre EXCEPT ![t] = rules]
         /\ UNCHANGED <<rules0, rules, active>>
         /\ UNCHANGED registry

(* run_all: `rule_was_triggered = True` when the rule's result is true *)
TriggeredLastOnly(rule_was_triggered, result) == result
Triggered(rule_was_triggered, result) == IF result THEN TRUE ELSE rule_was_triggered

(* run_all: `if stop_on_first_trigger: return True` under `if result` *)
RunAllStopsNever(result, stop_on_first_trigger) == FALSE
RunAllStops(result, stop_on_first_trigger) == result /\ stop_on_first_trigger

(* run returned `result` to its caller: the caller of the engine, or run_all *)
AfterRun(t, result) ==
    IF call[t].op = "run"
    THEN [pc |-> "done", frame |-> frame[t], outcome |-> Returned(PyBool(result))]
    ELSE LET f == [frame[t] EXCEPT
                      !.rule_was_triggered = Triggered(frame[t].rule_was_triggered, result)]
         IN IF RunAllStops(result, call[t].stop)
            THEN [pc |-> "done", frame |-> f, outcome |-> Returned(PyBool(TRUE))]
            ELSE [pc |-> "run_all_loop", frame |-> [f EXCEPT !.idx = @ + 1],
                  outcome |-> NoOutcome]

(* an error raised under run: neither run nor run_all has a try statement, the *)
(* error leaves the outermost call                                             *)
OnErrorNextRule(t, exc) == AfterRun(t, FALSE)
OnError(t, exc) == [pc |-> "done", frame |-> frame[t], outcome |-> Raised(exc)]

(* run: check_conditions_recursively raised; run has no try statement around it *)
EvaluationErrorAsFalse(t, exc) == AfterRun(t, FALSE)
OnEvaluationError(t, exc) == OnError(t, exc)

(* run_all: the for loop takes the next rule and calls run, or the list is over *)
RunAllLoop(t) ==
    /\ pc[t] = "run_all_loop"
    /\ IF frame[t].idx > Len(rules)
       THEN /\ pc' = [pc EXCEPT ![t] = "done"]
            /\ outcome' = [outcome EXCEPT ![t] = Returned(PyBool(frame[t].rule_was_triggered))]
            /\ UNCHANGED frame
       ELSE /\ pc' = [pc EXCEPT ![t] = "run_enter"]
            /\ frame' = [frame EXCEPT ![t].rule = frame[t].idx]
            /\ UNCHANGED outcome
    /\ UNCHANGED <<rules0, rules, active, call, log, pre>>
    /\ UNCHANGED registry

(* run: `if rule_triggered: do_actions(...)` *)
RunDispatchesAlways(rule_triggered) == TRUE
RunDispatches(rule_triggered) == rule_triggered

(* run: check_conditions_recursively(rule['conditions'], defined_variables) is  *)
(* called without override_params, which then has its default                  *)
RunOverridesCarried(t) == PyDict(frame[t].override_params)
RunOverrides(t) == PyNone

(* run: evaluate the conditions, then enter do_actions or return False *)
RunEnter(t) ==
    /\ pc[t] = "run_enter"
    /\ LET i == frame[t].rule
           ov == RunOverrides(t)
           r == check_conditions_recursively(
                    rules[i].conditions, call[t].venv, IF ov = PyNone THEN 0 ELSE 1, i, <<>>,
                    [heap |-> IF ov = PyNone THEN <<>> ELSE <<ov.d>>, log |-> <<>>])
           seen == log[t] \o <<EvalEvent(i, ov)>> \o r.log
       IN
       IF r.exc # NoExc
       THEN LET a == OnEvaluationError(t, r.exc)
            IN /\ pc' = [pc EXCEPT ![t] = a.pc]
               /\ frame' = [frame EXCEPT ![t] = a.frame]
               /\ outcome' = [outcome EXCEPT ![t] = a.outcome]
               /\ log' = [log EXCEPT ![t] = seen]
       ELSE IF RunDispatches(r.met)
       THEN /\ pc' = [pc EXCEPT ![t] = "do_actions_loop"]
            /\ frame' = [frame EXCEPT ![t].k = 1, ![t].returned_values = PyNone,
                                      ![t].override_params = OrEmptyDict(PyDict(r.heap[r.ref]))]
            /\ log' = [log EXCEPT ![t] = seen \o <<DispatchEvent(i, r.heap[r.ref])>>]
            /\ UNCHANGED outcome
       ELSE LET a == AfterRun(t, FALSE)
            IN /\ pc' = [pc EXCEPT ![t] = a.pc]
               /\ frame' = [frame EXCEPT ![t] = a.frame]
               /\ outcome' = [outcome EXCEPT ![t] = a.outcome]
               /\ log' = [log EXCEPT ![t] = seen]
    /\ UNCHANGED <<rules0, rules, active, call, pre>>
    /\ UNCHANGED registry

(* do_actions: `if returned_values and isinstance(returned_values, dict)` *)
CarriedApplies(returned_values) == Truthy(returned_values) /\ IsDict(returned_values)

(* do_actions: the params of one call; base is what `action.get('params') or {}` holds *)
EffectiveParamsDeclaredWins(base, override_params, returned_values) ==
    LET carried == IF CarriedApplies(returned_values) THEN returned_values.d ELSE EmptyDict
    IN DictUpdate(DictUpdate(carried, override_params), base)
EffectiveParams(base, override_params, returned_values) ==
    LET updated == DictUpdate(base, override_params)
    IN IF CarriedApplies(returned_values) THEN DictUpdate(updated, returned_values.d)
       ELSE updated

\* do_actions: returned_values = method(params as keyword arguments)
NextReturnedKeepsDict(returned_values, result) ==
    IF IsDict(result) THEN result ELSE returned_values
NextReturned(returned_values, result) == result

DeclaredParams(action) == IF "params" \in DOMAIN action THEN action.params ELSE PyNone

(* do_actions: the for loop takes the next action and computes its params, or *)
(* the list is over and do_actions returns                                   *)
DoActionsLoop(t) ==
    /\ pc[t] = "do_actions_loop"
    /\ LET i == frame[t].rule
           k == frame[t].k
       IN
       IF k > Len(rules[i].actions)
       THEN /\ IF call[t].op = "do_actions"
               THEN /\ pc' = [pc EXCEPT ![t] = "done"]
                    /\ outcome' = [outcome EXCEPT ![t] = Returned(PyNone)]
                    /\ UNCHANGED frame
               ELSE LET a == AfterRun(t, TRUE)
                    IN /\ pc' = [pc EXCEPT ![t] = a.pc]
                       /\ frame' = [frame EXCEPT ![t] = a.frame]
                       /\ outcome' = [outcome EXCEPT ![t] = a.outcome]
            /\ UNCHANGED rules
       ELSE LET declared == DeclaredParams(rules[i].actions[k])
                alias == Truthy(declared)
                base == IF alias THEN declared.d ELSE EmptyDict
            IN
            /\ rules' = IF alias
                        THEN [rules EXCEPT ![i].actions[k].params =
                                 PyDict(DictUpdate(base, frame[t].override_params))]
                        ELSE rules
            /\ frame' = [frame EXCEPT
                           ![t].params = EffectiveParams(base, frame[t].override_params,
                                                         frame[t].returned_values),
                           ![t].alias = alias /\ ~CarriedApplies(frame[t].returned_values)]
            /\ pc' = [pc EXCEPT ![t] = "do_actions_call"]
            /\ UNCHANGED outcome
    /\ UNCHANGED <<rules0, active, call, log, pre>>
    /\ UNCHANGED registry

(* do_actions: `for action in actions` goes on to the following action *)
NextActionSkipping(k) == k + 2
NextAction(k) == k + 1

\* do_actions: look the action up and invoke it with params as keyword arguments
DoActionsCall(t) ==
    /\ pc[t] = "do_actions_call"
    /\ LET i == frame[t].rule
           k == frame[t].k
           method_name == rules[i].actions[k].name
           params == IF frame[t].alias THEN rules[i].actions[k].params.d ELSE frame[t].params
           unmarked == method_name \in UnmarkedActionAttributes
       IN
       IF ~HasActionAttribute(method_name) \/ (unmarked /\ params # EmptyDict)
       THEN LET a == OnError(t, IF unmarked THEN UnexpectedKeyword
                                ELSE UndefinedAction(method_name))
            IN /\ pc' = [pc EXCEPT ![t] = a.pc]
               /\ frame' = [frame EXCEPT ![t] = a.frame]
               /\ outcome' = [outcome EXCEPT ![t] = a.outcome]
               /\ UNCHANGED log
       ELSE /\ log' = [log EXCEPT ![t] =
                         Append(@, ActEvent(i, k, method_name, params, frame[t].returned_values))]
            /\ frame' = [frame EXCEPT
                           ![t].returned_values =
                               NextReturned(frame[t].returned_values,
                                            IF unmarked THEN PyList
                                            ELSE ActionReturns[method_name]),
                           ![t].k = NextAction(k)]
            /\ pc' = [pc EXCEPT ![t] = "do_actions_loop"]
            /\ UNCHANGED outcome
    /\ UNCHANGED <<rules0, rules, active, call, pre>>
    /\ UNCHANGED registry

(* the caller has taken the result (or caught the error) and may call again *)
Finish(t) ==
    /\ pc[t] = "done"
    /\ pc' = [pc EXCEPT ![t] = "idle"]
    /\ call' = [call EXCEPT ![t] = NoCall]
    /\ frame' = [frame EXCEPT ![t] = IdleFrame]
    /\ log' = [log EXCEPT ![t] = <<>>]
    /\ outcome' = [outcome EXCEPT ![t] = NoOutcome]
    /\ pre' = [pre EXCEPT ![t] = <<>>]
    /\ UNCHANGED <<rules0, rules, active>>
    /\ UNCHANGED registry

Next ==
    \E t \in Threads :
        \/ CallRunAll(t)
        \/ CallRun(t)
        \/ CallDoActions(t)
        \/ CallCheck(t)
        \/ RunAllLoop(t)
        \/ RunEnter(t)
        \/ DoActionsLoop(t)
        \/ DoActionsCall(t)
        \/ Finish(t)

Spec == Init /\ [][Next]_vars

(* Two threads call the engine on the same rule list, each with provider       *)
(* instances of its own (the handler results of a call are that call's venv).  *)
ConcurrentRuleLists ==
    {<<Rule(LBool, <<Action("ret_b", PyDict(<<Item("b", 1)>>))>>)>>}

InitConcurrent ==
    /\ rules0 \in ConcurrentRuleLists
    /\ rules = rules0
    /\ active = Threads
    /\ pc = [t \in Threads |-> "idle"]
    /\ call = [t \in Threads |-> NoCall]
    /\ frame = [t \in Threads |-> IdleFrame]
    /\ log = [t \in Threads |-> <<>>]
    /\ outcome = [t \in Threads |-> NoOutcome]
    /\ pre = [t \in Threads |-> <<>>]
    /\ NoClass

(* each thread evaluates the rule with run, again and again *)
NextConcurrent ==
    \E t \in Threads :
        \/ CallRun(t)
        \/ RunEnter(t)
        \/ DoActionsLoop(t)
        \/ DoActionsCall(t)
        \/ Finish(t)

SpecConcurrent == InitConcurrent /\ [][NextConcurrent]_vars

-----------------------------------------------------------------------------
(* Registration: the decorators rule_action / rule_variable and the class   *)
(* methods get_all_actions / get_all_variables.  A string is the sequence   *)
(* of its characters; a function object has a name and attributes.          *)

MaxMembers == 2     \* members of a provider class
MaxCalls == 2       \* calls of a decorated function

PyStr(s) == [tag |-> "str", s |-> s]

(* str.upper() on one character of the identifiers' alphabet *)
Upper(c) ==
    CASE c = "a" -> "A" [] c = "b" -> "B" [] c = "d" -> "D" [] c = "e" -> "E"
      [] c = "f" -> "F" [] c = "i" -> "I" [] c = "n" -> "N" [] c = "o" -> "O"
      [] c = "r" -> "R" [] c = "t" -> "T" [] c = "w" -> "W" [] OTHER -> c

(* name.split('_'), cur being the word read so far *)
RECURSIVE SplitUnderscore(_, _)
SplitUnderscore(s, cur) ==
    IF s = <<>> THEN <<cur>>
    ELSE IF Head(s) = "_" THEN <<cur>> \o SplitUnderscore(Tail(s), <<>>)
    ELSE SplitUnderscore(Tail(s), Append(cur, Head(s)))

(* a word of lower-case letters with its first letter in upper case *)
TitleCase(w) == IF w = <<>> THEN w ELSE <<Upper(Head(w))>> \o Tail(w)

(* ' '.join(words) *)
RECURSIVE JoinSpace(_)
JoinSpace(words) ==
    IF words = <<>> THEN <<>>
    ELSE IF Len(words) = 1 THEN words[1]
    ELSE words[1] \o <<" ">> \o JoinSpace(Tail(words))

(* the human label of an identifier: its underscore-separated words title-cased *)
fn_name_to_pretty_label(name) ==
    LET words == SplitUnderscore(name, <<>>)
    IN JoinSpace([i \in DOMAIN words |-> TitleCase(words[i])])

(* a function object as the def statement makes it, `written` being the        *)
(* decorator line above the def as the programmer wrote it; attribute access   *)
Function(name, written) == [name |-> name, attrs |-> <<>>, written |-> written]
SetAttrs(func, new) ==
    [func EXCEPT !.attrs = [k \in DOMAIN func.attrs \cup DOMAIN new |->
                               IF k \in DOMAIN new THEN new[k] ELSE func.attrs[k]]]
GetAttr(func, attr, default) ==
    IF attr \in DOMAIN func.attrs THEN func.attrs[attr] ELSE default

(* dict(label=fn_name_to_pretty_label(name), name=name, fieldType=field_type) *)
ParamEntry(name, field_type) ==
    [label |-> PyStr(fn_name_to_pretty_label(name)), name |-> PyStr(name),
     fieldType |-> field_type]

(* params_: a dict name -> fieldType becomes the list of its entries, in the *)
(* dict's order; anything else is taken as it is                            *)
ParamsAsGiven(params) == params
NormalizedParams(params) ==
    IF IsDict(params)
    THEN PyRawSeq("list", [i \in DOMAIN params.d |->
                              ParamEntry(params.d[i][1], params.d[i][2])])
    ELSE params

(* label or fn_name_to_pretty_label(func.__name__) *)
LabelOf(label, func) ==
    IF Truthy(label) THEN label ELSE PyStr(fn_name_to_pretty_label(func.name))

(* rule_action(label, params)(func) *)
rule_action(label, params, func) ==
    SetAttrs(func, [is_rule_action |-> TRUE,
                    label |-> LabelOf(label, func),
                    params |-> NormalizedParams(params)])

(* the subclasses of BaseType a rule variable can be declared with *)
FieldTypeClasses == {"numeric", "boolean"}

(* rule_variable(field_type, label, options, params)(func): the function with *)
(* its attributes set, or the AssertionError of the field_type check          *)
rule_variable(field_type, label, options, params, func) ==
    LET options1 == IF Truthy(options) THEN options ELSE PyRawSeq("list", <<>>)
        params1 == IF Truthy(params) THEN params ELSE PyDict(EmptyDict)
        \* computed and handed to validate_parameters only
        params_ == NormalizedParams(params1)
    IN IF field_type \notin FieldTypeClasses
       THEN [exc |-> AssertFailed, func |-> func]
       ELSE [exc |-> NoExc,
             func |-> SetAttrs(func, [field_type |-> field_type,
                                      is_rule_variable |-> TRUE,
                                      label |-> LabelOf(label, func),
                                      options |-> options1,
                                      params |-> params1])]

(* the identifiers of the model in the order inspect.getmembers lists them *)
SortedNames == << <<"d", "o", "_", "i", "t">>, <<"f", "o", "o">>, <<"t", "e", "n">> >>

(* inspect.getmembers(cls): the member names, sorted *)
GetMembers(cls) == SelectSeq(SortedNames, LAMBDA n : n \in DOMAIN cls)

get_all_actions(cls) ==
    LET methods == SelectSeq(GetMembers(cls),
                             LAMBDA n : GetAttr(cls[n], "is_rule_action", FALSE))
    IN [i \in DOMAIN methods |->
            [name |-> PyStr(methods[i]),
             label |-> cls[methods[i]].attrs.label,
             params |-> cls[methods[i]].attrs.params]]

get_all_variables(cls) ==
    LET methods == SelectSeq(GetMembers(cls),
                             LAMBDA n : GetAttr(cls[n], "is_rule_variable", FALSE))
    IN [i \in DOMAIN methods |->
            [name |-> PyStr(methods[i]),
             label |-> cls[methods[i]].attrs.label,
             field_type |-> cls[methods[i]].attrs.field_type,
             options |-> cls[methods[i]].attrs.options,
             params |-> cls[methods[i]].attrs.params]]

(* what the decorators are called with *)
FunctionNames == {SortedNames[i] : i \in DOMAIN SortedNames}
LabelInputs == {PyNone, PyStr(<<>>), PyStr(<<"w", "o", "o">>)}
ParamsMapping ==
    PyDict(<<Item(<<"f", "o", "o">>, "numeric"), Item(<<"b", "a", "_", "r">>, "text")>>)
ParamsList ==
    PyRawSeq("list", <<[fieldType |-> "select", name |-> PyStr(<<"b", "a", "z">>),
                        label |-> PyStr(<<"B", "a", "z">>)]>>)
ActionParamInputs == {PyNone, ParamsMapping, ParamsList}
VariableParamInputs == {PyNone, ParamsMapping}
FieldTypeInputs == {"numeric", "not_a_type"}

(* the class statement begins: its body defines the members one by one *)
InitRegistration ==
    /\ rules0 = <<>>
    /\ rules = <<>>
    /\ active = {}
    /\ pc = [t \in Threads |-> "idle"]
    /\ call = [t \in Threads |-> NoCall]
    /\ frame = [t \in Threads |-> IdleFrame]
    /\ log = [t \in Threads |-> <<>>]
    /\ outcome = [t \in Threads |-> NoOutcome]
    /\ pre = [t \in Threads |-> <<>>]
    /\ members = <<>>
    /\ phase = "body"
    /\ catalog = [of |-> "none", entries |-> <<>>]
    /\ data = 1
    /\ returns = <<>>

(* the class body binds the name to the function object *)
Bind(func) ==
    /\ Cardinality(DOMAIN members \cup {func.name}) <= MaxMembers
    /\ members' = [n \in DOMAIN members \cup {func.name} |->
                      IF n = func.name THEN func ELSE members[n]]
    /\ UNCHANGED <<phase, catalog, data, returns>>

(* a method decorated with rule_action *)
DefineAction ==
    /\ phase = "body"
    /\ \E name \in FunctionNames, label \in LabelInputs, params \in ActionParamInputs :
            Bind(rule_action(label, params,
                             Function(name, [decorator |-> "rule_action", label |-> label,
                                             params |-> params])))
    /\ UNCHANGED engine

(* a method decorated with rule_variable; the failed field_type check ends the *)
(* class statement with the error                                             *)
DefineVariable ==
    /\ phase = "body"
    /\ \E name \in FunctionNames, field_type \in FieldTypeInputs,
          label \in LabelInputs \ {PyStr(<<>>)}, params \in VariableParamInputs :
            LET r == rule_variable(field_type, label, PyNone, params,
                                   Function(name, [decorator |-> "rule_variable",
                                                   field_type |-> field_type, label |-> label,
                                                   options |-> PyNone, params |-> params]))
            IN IF r.exc # NoExc
               THEN /\ phase' = "raised"
                    /\ UNCHANGED <<members, catalog, data, returns>>
               ELSE Bind(r.func)
    /\ UNCHANGED engine

(* a method without decorator *)
DefinePlain ==
    /\ phase = "body"
    /\ \E name \in FunctionNames : Bind(Function(name, [decorator |-> "none"]))
    /\ UNCHANGED engine

(* the class statement ends: the class exists *)
EndClass ==
    /\ phase = "body"
    /\ phase' = "class"
    /\ UNCHANGED <<members, catalog, data, returns>>
    /\ UNCHANGED engine

GetAllActions ==
    /\ phase = "class"
    /\ catalog' = [of |-> "actions", entries |-> get_all_actions(members)]
    /\ UNCHANGED <<members, phase, data, returns>>
    /\ UNCHANGED engine

GetAllVariables ==
    /\ phase = "class"
    /\ catalog' = [of |-> "variables", entries |-> get_all_variables(members)]
    /\ UNCHANGED <<members, phase, data, returns>>
    /\ UNCHANGED engine

(* the data a variable function reads changes *)
ChangeData ==
    /\ phase = "class"
    /\ data' = 3 - data
    /\ UNCHANGED <<members, phase, catalog, returns>>
    /\ UNCHANGED engine

(* a function decorated with rule_variable is called: the decorator returned  *)
(* the function itself, so its body runs and returns the data as it is now    *)
CallVariable ==
    /\ phase = "class"
    /\ Len(returns) < MaxCalls
    /\ \E n \in DOMAIN members :
            /\ GetAttr(members[n], "is_rule_variable", FALSE)
            /\ returns' = Append(returns, [name |-> n, read |-> data, value |-> data])
    /\ UNCHANGED <<members, phase, catalog, data>>
    /\ UNCHANGED engine

NextRegistration ==
    \/ DefineAction
    \/ DefineVariable
    \/ DefinePlain
    \/ EndClass
    \/ GetAllActions
    \/ GetAllVariables
    \/ ChangeData
    \/ CallVariable

SpecRegistration == InitRegistration /\ [][NextRegistration]_vars

-----------------------------------------------------------------------------
(* Rules that name an attribute of a provider that no decorator has marked,   *)
(* next to rules that name a marked one and a name the provider has not       *)

LUnmarked == Leaf("get_all_variables", "is_true", 0)
LUnmarkedParams == WithParams(LUnmarked, PyDict(<<Item("p", 1)>>))

UnmarkedTrees ==
    {LUnmarked, LUnmarkedParams, AllOf(<<LBool, LUnmarked>>), AnyOf(<<LBool, LUnmarked, LNum>>),
     AnyOf(<<LBool, LUndefinedVar>>)}

UnmarkedActionLists ==
    {<<[name |-> "get_all_actions"]>>,
     <<Action("ret_a", PyDict(<<Item("a", 1)>>)), [name |-> "get_all_actions"],
       Action("ret_b", PyDict(<<Item("b", 1)>>))>>,
     <<[name |-> "ret_none"], Action("get_all_actions", PyDict(<<Item("a", 1)>>))>>,
     <<[name |-> "ret_none"], [name |-> "not_defined"]>>}

AttributeRuleLists ==
    {<<Rule(c, <<Action("ret_a", PyDict(<<Item("a", 1)>>))>>)>> : c \in UnmarkedTrees}
        \cup {<<Rule(LBool, a)>> : a \in UnmarkedActionLists}
        \cup {<<Rule(LBool, <<[name |-> "get_all_actions"]>>),
                Rule(LUnmarked, <<[name |-> "ret_none"]>>)>>}

InitAttributes ==
    /\ rules0 \in AttributeRuleLists
    /\ rules = rules0
    /\ active = {1}
    /\ pc = [t \in Threads |-> "idle"]
    /\ call = [t \in Threads |-> NoCall]
    /\ frame = [t \in Threads |-> IdleFrame]
    /\ log = [t \in Threads |-> <<>>]
    /\ outcome = [t \in Threads |-> NoOutcome]
    /\ pre = [t \in Threads |-> <<>>]
    /\ NoClass

SpecAttributes == InitAttributes /\ [][Next]_vars

-----------------------------------------------------------------------------
(* Reference semantics of a call's inputs, used to state the properties *)

IsPrefix(p, q) == Len(p) <= Len(q) /\ SubSeq(q, 1, Len(p)) = p

Children(node) ==
    IF DOMAIN node = {"all"} THEN node.all
    ELSE IF DOMAIN node = {"any"} THEN node.any
    ELSE <<>>

RECURSIVE NodeAt(_, _)
NodeAt(node, p) == IF p = <<>> THEN node ELSE NodeAt(Children(node)[Head(p)], Tail(p))

RECURSIVE PathsOf(_)
PathsOf(node) ==
    {<<>>} \cup UNION {{<<i>> \o q : q \in PathsOf(Children(node)[i])} :
                        i \in DOMAIN Children(node)}

RawValue(result) == SplitValue(result)

(* resolving the leaf's variable ends in an error *)
ResolveFails(node, venv) ==
    \/ node.name \notin DOMAIN VariableKinds
    \/ LET keys == IF "params" \in DOMAIN node /\ IsDict(node.params)
                   THEN DictKeys(node.params.d) ELSE {}
       IN \/ "params" \in DOMAIN node /\ ~IsDict(node.params)
          \/ ~BindsTo(node.name, keys)
          \/ ~(VariableReads[node.name] \subseteq keys)
    \/ IsTuple(venv[node.name]) /\ ~IsDict(SplitOverrides(venv[node.name]))
            /\ Truthy(SplitOverrides(venv[node.name]))

(* the value of a node on its own: "true", "false", or "error" when evaluating *)
(* it alone ends in an error                                                   *)
RECURSIVE Val(_, _)
RECURSIVE FirstNot(_, _, _, _)
FirstNot(children, venv, neutral, i) ==
    IF i > Len(children) THEN neutral
    ELSE IF Val(children[i], venv) # neutral THEN Val(children[i], venv)
    ELSE FirstNot(children, venv, neutral, i + 1)
Val(node, venv) ==
    IF DOMAIN node \in {{"all"}, {"any"}}
    THEN IF Children(node) = <<>> THEN "error"
         ELSE FirstNot(Children(node), venv, IF DOMAIN node = {"all"} THEN "true" ELSE "false", 1)
    ELSE IF ~(LeafFields \subseteq DOMAIN node) \/ "all" \in DOMAIN node \/ "any" \in DOMAIN node
    THEN "error"
    ELSE IF ResolveFails(node, venv) THEN "error"
    ELSE IF node.operator \notin OperatorSet(VariableKinds[node.name]) THEN "error"
    ELSE IF ApplyOperator(TypedValue(VariableKinds[node.name], RawValue(venv[node.name])),
                          node.operator,
                          IF node.operator \in NoInputOperators THEN <<>> ELSE <<node.value>>)
         THEN "true" ELSE "false"

EventsOf(t, kind) == SelectSeq(log[t], LAMBDA e : e.ev = kind)
EventsOfRule(t, kind, i) == SelectSeq(log[t], LAMBDA e : e.ev = kind /\ e.rule = i)

(* the node at path p was entered: a leaf below it (or itself) reached check_condition *)
Entered(L, p) == \E x \in DOMAIN L : IsPrefix(p, L[x].path)

Completed(t) == pc[t] = "done" /\ outcome[t].kind = "return"

(* the condition evaluations a completed call made: the rules it evaluated *)
EvaluatedRules(t) == {log[t][x].rule : x \in {y \in DOMAIN log[t] : log[t][y].ev = "eval"}}

(* Left-to-right evaluation with short circuit at the nodes of one kind: of the *)
(* children of such a node that was entered, the first is entered, a child is   *)
(* entered only after all its left siblings were entered and had the value      *)
(* `goesOn`, the child after an entered child of value `goesOn` is entered, and *)
(* the leaves of a left sibling are all reached before those of a right one.    *)
ShortCircuits(tree, venv, L, kind, goesOn) ==
    \A p \in PathsOf(tree) :
        (DOMAIN NodeAt(tree, p) = {kind} /\ Entered(L, p)) =>
            LET cs == Children(NodeAt(tree, p))
            IN /\ Entered(L, Append(p, 1))
               /\ \A i, j \in DOMAIN cs :
                    (i < j /\ Entered(L, Append(p, j))) =>
                        /\ Entered(L, Append(p, i))
                        /\ Val(cs[i], venv) = goesOn
                        /\ \A x, y \in DOMAIN L :
                             (IsPrefix(Append(p, i), L[x].path)
                                /\ IsPrefix(Append(p, j), L[y].path)) => x < y
               /\ \A i \in DOMAIN cs :
                    (i < Len(cs) /\ Entered(L, Append(p, i)) /\ Val(cs[i], venv) = goesOn)
                        => Entered(L, Append(p, i + 1))

(* the boolean a completed check / run call returned *)
ResultOf(t) ==
    IF call[t].op = "check" THEN outcome[t].value.val.v ELSE outcome[t].value.v

-----------------------------------------------------------------------------
(* C1: an `all` node returns true iff every child evaluates true; its children *)
(* are evaluated left to right, and once a child evaluates false no later      *)
(* child is evaluated and no variable handler of a later child is invoked.     *)
C1_AllShortCircuits ==
    \A t \in Threads :
        Completed(t) =>
            /\ \A i \in EvaluatedRules(t) :
                 /\ ShortCircuits(rules[i].conditions, call[t].venv,
                                  EventsOfRule(t, "leaf", i), "all", "true")
                 /\ ShortCircuits(rules[i].conditions, call[t].venv,
                                  EventsOfRule(t, "var", i), "all", "true")
            /\ (call[t].op \in {"check", "run"}
                    /\ DOMAIN rules[call[t].rule].conditions = {"all"}) =>
                 LET cs == rules[call[t].rule].conditions.all
                 IN ResultOf(t) <=> \A i \in DOMAIN cs : Val(cs[i], call[t].venv) = "true"

(* an all node returned false after its first child: the second, which is true, *)
(* was never evaluated                                                          *)
C1_Witness ==
    \E t \in Threads :
        /\ Completed(t) /\ call[t].op = "check"
        /\ LET tree == rules[call[t].rule].conditions
           IN /\ DOMAIN tree = {"all"} /\ Len(tree.all) >= 2
              /\ Val(tree.all[1], call[t].venv) = "false"
              /\ Val(tree.all[2], call[t].venv) = "true"
              /\ ~ResultOf(t)
              /\ ~Entered(EventsOf(t, "var"), <<2>>)

(* C2: an `any` node returns true iff some child evaluates true; its children   *)
(* are evaluated left to right and evaluation stops at the first child that is  *)
(* true; nested all/any nodes obey the same rule at every level.                *)
C2_AnyShortCircuits ==
    \A t \in Threads :
        Completed(t) =>
            /\ \A i \in EvaluatedRules(t) :
                 /\ ShortCircuits(rules[i].conditions, call[t].venv,
                                  EventsOfRule(t, "leaf", i), "any", "false")
                 /\ ShortCircuits(rules[i].conditions, call[t].venv,
                                  EventsOfRule(t, "var", i), "any", "false")
            /\ (call[t].op \in {"check", "run"}) =>
                 LET tree == rules[call[t].rule].conditions
                 IN /\ DOMAIN tree = {"any"} =>
                        (ResultOf(t) <=>
                            \E i \in DOMAIN tree.any : Val(tree.any[i], call[t].venv) = "true")
                    /\ ResultOf(t) <=> (Val(tree, call[t].venv) = "true")

(* a nested any node stopped at its first child, and the enclosing all node went on *)
C2_Witness ==
    \E t \in Threads :
        /\ Completed(t) /\ call[t].op = "check"
        /\ LET tree == rules[call[t].rule].conditions
           IN /\ DOMAIN tree = {"all"} /\ Len(tree.all) = 2
              /\ DOMAIN tree.all[1] = {"any"} /\ Len(tree.all[1].any) >= 2
              /\ Val(tree.all[1].any[1], call[t].venv) = "true"
              /\ Val(tree.all[1].any[2], call[t].venv) = "true"
              /\ ~Entered(EventsOf(t, "var"), <<1, 2>>)
              /\ Entered(EventsOf(t, "var"), <<2>>)
              /\ ResultOf(t)

-----------------------------------------------------------------------------
(* Reference merge: mappings as functions *)

AsMap(d) == [k \in DictKeys(d) |-> DictGet(d, k)]
MapMerge(f, g) == [k \in DOMAIN f \cup DOMAIN g |-> IF k \in DOMAIN g THEN g[k] ELSE f[k]]
PyMap(x) == IF x.tag = "dict" THEN AsMap(x.d) ELSE <<>>

(* the override map the handler of `name` emits *)
HandlerOverrides(venv, name) ==
    IF venv[name].tag = "tuple" THEN PyMap(venv[name].ov) ELSE <<>>
HandlerKeys(venv, name) ==
    IF venv[name].tag = "tuple" /\ venv[name].ov.tag = "dict"
    THEN [x \in DOMAIN venv[name].ov.d |-> venv[name].ov.d[x][1]] ELSE <<>>

(* the fold of the override maps of the first n handler invocations of V over base *)
RECURSIVE FoldOverrides(_, _, _, _)
FoldOverrides(base, V, venv, n) ==
    IF n = 0 THEN base
    ELSE MapMerge(FoldOverrides(base, V, venv, n - 1), HandlerOverrides(venv, V[n].name))

(* keys in the order in which they were first seen *)
RECURSIVE AppendNew(_, _)
AppendNew(seen, keys) ==
    IF keys = <<>> THEN seen
    ELSE AppendNew(IF \E x \in DOMAIN seen : seen[x] = Head(keys) THEN seen
                   ELSE Append(seen, Head(keys)), Tail(keys))
RECURSIVE FoldKeys(_, _, _, _)
FoldKeys(base, V, venv, n) ==
    IF n = 0 THEN base
    ELSE AppendNew(FoldKeys(base, V, venv, n - 1), HandlerKeys(venv, V[n].name))

KeysInOrder(d) == [x \in DOMAIN d |-> d[x][1]]
RulesOf(events) == [x \in DOMAIN events |-> events[x].rule]
Triggers(i, venv) == Val(rules[i].conditions, venv) = "true"

-----------------------------------------------------------------------------
(* C3: run evaluates the rule's conditions exactly once starting from empty     *)
(* overrides; on true it dispatches the rule's actions exactly once with the    *)
(* overrides produced by that evaluation and returns true; on false it invokes  *)
(* no action and returns false.                                                 *)
C3_RunOnce ==
    \A t \in Threads :
        call[t].op = "run" =>
            LET i == call[t].rule
                met == Triggers(i, call[t].venv)
                V == EventsOf(t, "var")
                leaves == EventsOf(t, "leaf")
                dispatches == EventsOf(t, "dispatch")
                acts == EventsOf(t, "act")
            IN /\ (dispatches # <<>> \/ acts # <<>>) => met
               /\ Len(EventsOf(t, "eval")) <= 1
               /\ Completed(t) =>
                    /\ EventsOf(t, "eval") = <<EvalEvent(i, PyNone)>>
                    /\ leaves # <<>> /\ leaves[1].incoming = EmptyDict
                    /\ outcome[t].value = PyBool(met)
                    /\ met => /\ Len(dispatches) = 1
                              /\ dispatches[1].rule = i
                              /\ AsMap(dispatches[1].ov) = FoldOverrides(<<>>, V, call[t].venv, Len(V))
                              /\ RulesOf(acts) = [k \in DOMAIN rules[i].actions |-> i]
                              /\ \A k \in DOMAIN acts : acts[k].k = k
                    /\ ~met => dispatches = <<>> /\ acts = <<>>

(* a run that triggered, dispatched non-empty overrides to a non-empty action list *)
C3_Witness ==
    \E t \in Threads :
        /\ Completed(t) /\ call[t].op = "run"
        /\ outcome[t].value = PyBool(TRUE)
        /\ EventsOf(t, "dispatch") # <<>>
        /\ EventsOf(t, "dispatch")[1].ov # EmptyDict
        /\ Len(EventsOf(t, "act")) >= 2

(* C4: run_all with stop_on_first_trigger evaluates the rules in list order and *)
(* stops right after the first rule that triggers: it returns true and no later *)
(* rule is evaluated or has its actions run; if no rule triggers, every rule is *)
(* evaluated and the result is false.                                           *)
C4_StopOnFirstTrigger ==
    \A t \in Threads :
        (call[t].op = "run_all" /\ call[t].stop) =>
            LET venv == call[t].venv
                evals == EventsOf(t, "eval")
                hits == {i \in DOMAIN rules : Triggers(i, venv)}
                first == IF hits = {} THEN Len(rules)
                         ELSE CHOOSE i \in hits : \A j \in hits : i <= j
            IN /\ \A x \in DOMAIN evals : evals[x].rule = x /\ x <= first
               /\ \A x \in DOMAIN log[t] :
                    log[t][x].ev \in {"dispatch", "act"} =>
                        log[t][x].rule = first /\ first \in hits
               /\ Completed(t) =>
                    /\ RulesOf(evals) = [x \in 1..first |-> x]
                    /\ outcome[t].value = PyBool(hits # {})
                    /\ RulesOf(EventsOf(t, "dispatch")) = IF hits = {} THEN <<>> ELSE <<first>>

(* the first rule triggered and the second, which would trigger too, was skipped *)
C4_Witness ==
    \E t \in Threads :
        /\ Completed(t) /\ call[t].op = "run_all" /\ call[t].stop
        /\ Len(rules) >= 2
        /\ Triggers(1, call[t].venv) /\ Triggers(2, call[t].venv)
        /\ rules[2].actions # <<>>
        /\ RulesOf(EventsOf(t, "eval")) = <<1>>
        /\ \A x \in DOMAIN log[t] : log[t][x].rule = 1
        /\ outcome[t].value = PyBool(TRUE)

(* C5: run_all with the default stop_on_first_trigger=false evaluates every     *)
(* rule of the list exactly once, in order, whatever the earlier rules          *)
(* returned, and returns true iff at least one rule triggered.                  *)
C5_RunAllEvaluatesAll ==
    \A t \in Threads :
        (call[t].op = "run_all" /\ ~call[t].stop) =>
            LET venv == call[t].venv
                evals == EventsOf(t, "eval")
                hits == {i \in DOMAIN rules : Triggers(i, venv)}
            IN /\ \A x \in DOMAIN evals : evals[x].rule = x
               /\ Completed(t) =>
                    /\ RulesOf(evals) = [x \in DOMAIN rules |-> x]
                    /\ outcome[t].value = PyBool(hits # {})
                    /\ {e.rule : e \in {log[t][x] : x \in {y \in DOMAIN log[t] :
                                            log[t][y].ev = "dispatch"}}} = hits

(* the first rule triggered, the last did not: all were evaluated, result true *)
C5_Witness ==
    \E t \in Threads :
        /\ Completed(t) /\ call[t].op = "run_all" /\ ~call[t].stop
        /\ Len(rules) >= 2
        /\ Triggers(1, call[t].venv) /\ ~Triggers(Len(rules), call[t].venv)
        /\ RulesOf(EventsOf(t, "eval")) = [x \in DOMAIN rules |-> x]
        /\ outcome[t].value = PyBool(TRUE)

(* C6: the overrides a combinator returns are the left-to-right, right-biased   *)
(* fold of the evaluated leaves' override maps over the incoming overrides; a   *)
(* key keeps the place of its first insertion; each leaf is entered with the    *)
(* overrides accumulated from the leaves evaluated before it.                   *)
C6_OverrideFold ==
    \A t \in Threads :
        (Completed(t) /\ call[t].op = "check") =>
            LET venv == call[t].venv
                V == EventsOf(t, "var")
                leaves == EventsOf(t, "leaf")
                base == PyMap(call[t].ov)
                baseKeys == IF call[t].ov.tag = "dict" THEN KeysInOrder(call[t].ov.d) ELSE <<>>
                got == outcome[t].value.ov.d
            IN /\ AsMap(got) = FoldOverrides(base, V, venv, Len(V))
               /\ KeysInOrder(got) = FoldKeys(baseKeys, V, venv, Len(V))
               /\ Len(leaves) = Len(V)
               /\ \A x \in DOMAIN leaves :
                    /\ leaves[x].path = V[x].path
                    /\ AsMap(leaves[x].incoming) = FoldOverrides(base, V, venv, x - 1)

(* two leaves emitted the key a with different values and the later one won,   *)
(* next to a key only one of them emitted                                       *)
C6_Witness ==
    \E t \in Threads :
        /\ Completed(t) /\ call[t].op = "check"
        /\ LET V == EventsOf(t, "var")
               got == outcome[t].value.ov.d
           IN /\ Len(V) >= 2
              /\ HandlerOverrides(call[t].venv, V[1].name) = AsMap(<<Item("a", 2), Item("b", 2)>>)
              /\ HandlerOverrides(call[t].venv, V[Len(V)].name) = AsMap(<<Item("a", 1)>>)
              /\ got = <<Item("a", 1), Item("b", 2)>>

-----------------------------------------------------------------------------
(* The inputs of the x-th event of the log when it is an action invocation *)

(* the override params of the do_actions call the invocation belongs to *)
DispatchedTo(t, x) ==
    LET d == CHOOSE y \in DOMAIN log[t] :
                 log[t][y].ev = "dispatch" /\ log[t][y].rule = log[t][x].rule /\ y < x
    IN AsMap(log[t][d].ov)

(* the params the action declares in the rule list `rl` *)
DeclaredIn(rl, e) == PyMap(DeclaredParams(rl[e.rule].actions[e.k]))

(* what the action before it in the list returned; none for the first action *)
PreviousReturn(e) ==
    IF e.k = 1 THEN PyNone ELSE ActionReturns[rules0[e.rule].actions[e.k - 1].name]

ActIndexes(t) == {x \in DOMAIN log[t] : log[t][x].ev = "act"}

(* C7: every action is invoked with the three-level shallow merge: its declared *)
(* params (as the rule holds them when the engine is called), overridden by the *)
(* override params, overridden by the previous action's return value when that  *)
(* value is a mapping.                                                          *)
C7_ThreeLevelMerge ==
    \A t \in Threads :
        \A x \in ActIndexes(t) :
            LET e == log[t][x]
            IN AsMap(e.params) =
                   MapMerge(MapMerge(DeclaredIn(pre[t], e), DispatchedTo(t, x)),
                            PyMap(PreviousReturn(e)))

(* one key declared, overridden and returned by the previous action: the        *)
(* returned value reached the action                                            *)
C7_Witness ==
    \E t \in Threads :
        \E x \in ActIndexes(t) :
            LET e == log[t][x]
            IN /\ "a" \in DOMAIN DeclaredIn(pre[t], e)
               /\ "a" \in DOMAIN DispatchedTo(t, x)
               /\ "a" \in DOMAIN PyMap(PreviousReturn(e))
               /\ DeclaredIn(pre[t], e)["a"] # DispatchedTo(t, x)["a"]
               /\ DispatchedTo(t, x)["a"] # PyMap(PreviousReturn(e))["a"]
               /\ AsMap(e.params)["a"] = PyMap(PreviousReturn(e))["a"]

(* C8: the carried result action k sees is only the return value of action k-1: *)
(* a mapping is merged into its params, a non-mapping is ignored, keys returned *)
(* by earlier actions do not reach it unless action k-1 returned them again,    *)
(* and the first action receives no carried result.                             *)
C8_CarriedOnlyFromPrevious ==
    \A t \in Threads :
        \A x \in ActIndexes(t) :
            LET e == log[t][x]
                own == MapMerge(DeclaredIn(pre[t], e), DispatchedTo(t, x))
                prev == PreviousReturn(e)
                got == AsMap(e.params)
            IN /\ e.carried = prev
               /\ ~IsDict(prev) => got = own
               /\ IsDict(prev) => \A k \in DictKeys(prev.d) : got[k] = DictGet(prev.d, k)
               /\ \A k \in DOMAIN got :
                    k \notin DOMAIN own => (IsDict(prev) /\ k \in DictKeys(prev.d))
               /\ \A k \in DOMAIN got :
                    (~IsDict(prev) \/ k \notin DictKeys(prev.d)) => got[k] = own[k]

(* the first action returned b, the second a list: the third was invoked        *)
(* without b, and a fourth with what the third returned                         *)
C8_Witness ==
    \E t \in Threads :
        \E x, y, z \in ActIndexes(t) :
            /\ log[t][x].k = 1 /\ log[t][y].k = 2 /\ log[t][z].k = 3
            /\ log[t][x].rule = log[t][z].rule /\ log[t][y].rule = log[t][z].rule
            /\ ActionReturns[log[t][x].name] = PyDict(<<Item("b", 3)>>)
            /\ log[t][y].params = <<Item("a", 1), Item("b", 3)>>
            /\ ActionReturns[log[t][y].name] = PyList
            /\ log[t][z].carried = PyList
            /\ log[t][z].params = <<Item("a", 1)>>

(* C9: the engine never mutates the rule it is given: when the call has ended   *)
(* the rule list equals what it was when the call began.                        *)
C9_RuleNotMutated ==
    \A t \in Threads : pc[t] = "done" => rules = pre[t]

(* C10: no state is carried between calls: every action of a run is invoked     *)
(* with the rule's params as written, merged with the overrides of this run's   *)
(* evaluation and then with the carried result.                                 *)
C10_NoStateBetweenRuns ==
    \A t \in Threads :
        call[t].op = "run" =>
            \A x \in ActIndexes(t) :
                LET e == log[t][x]
                IN AsMap(e.params) =
                       MapMerge(MapMerge(DeclaredIn(rules0, e), DispatchedTo(t, x)),
                                PyMap(PreviousReturn(e)))

-----------------------------------------------------------------------------
(* Reference trace of an evaluation, computed from the condition tree and the *)
(* raw values of the variables alone (no override params anywhere)            *)

(* the handlers' results with the override part dropped *)
RawEnv(venv) == [v \in DOMAIN venv |-> SplitValue(venv[v])]

(* every handler a call can reach returned a bare non-tuple value or a pair *)
(* (raw value, mapping or None)                                            *)
WellShaped(venv) ==
    \A v \in DOMAIN venv :
        /\ ~(venv[v].tag = "seq" /\ IsTuple(venv[v]))
        /\ venv[v].tag = "tuple" => venv[v].ov.tag \in {"dict", "none"}

CallsHandler(node) ==
    /\ LeafFields \subseteq DOMAIN node
    /\ node.name \in DOMAIN VariableKinds
    /\ ("params" \in DOMAIN node => IsDict(node.params))
    /\ BindsTo(node.name, IF "params" \in DOMAIN node THEN DictKeys(node.params.d) ELSE {})

(* what = "leaf": the leaves check_condition is entered for, in order;      *)
(* what = "var": the handler calls [path, name, params], in order           *)
RECURSIVE RefTrace(_, _, _, _)
RECURSIVE RefTraceFrom(_, _, _, _, _, _)
RefTraceFrom(children, i, goesOn, raw, path, what) ==
    IF i > Len(children) THEN <<>>
    ELSE RefTrace(children[i], raw, Append(path, i), what)
            \o (IF Val(children[i], raw) = goesOn
                THEN RefTraceFrom(children, i + 1, goesOn, raw, path, what)
                ELSE <<>>)
RefTrace(node, raw, path, what) ==
    IF DOMAIN node = {"all"} THEN RefTraceFrom(node.all, 1, "true", raw, path, what)
    ELSE IF DOMAIN node = {"any"} THEN RefTraceFrom(node.any, 1, "false", raw, path, what)
    ELSE IF "all" \in DOMAIN node \/ "any" \in DOMAIN node THEN <<>>
    ELSE IF what = "leaf" THEN <<[path |-> path]>>
    ELSE IF CallsHandler(node)
         THEN <<[path |-> path, name |-> node.name,
                 params |-> IF "params" \in DOMAIN node THEN AsMap(node.params.d) ELSE <<>>]>>
    ELSE <<>>

LeavesSeen(t, i) ==
    LET L == EventsOfRule(t, "leaf", i) IN [x \in DOMAIN L |-> [path |-> L[x].path]]
HandlersSeen(t, i) ==
    LET L == EventsOfRule(t, "var", i)
    IN [x \in DOMAIN L |-> [path |-> L[x].path, name |-> L[x].name,
                            params |-> AsMap(L[x].params)]]

(* C11: override params never influence the boolean logic: whatever override   *)
(* mapping comes in and whatever override maps the leaves emit, the leaves     *)
(* evaluated, the handler calls with their params (each leaf's own params) and *)
(* the boolean returned are those determined by the tree and the raw values.   *)
C11_OverridesDoNotSteer ==
    \A t \in Threads :
        WellShaped(call[t].venv) =>
            /\ \A i \in EvaluatedRules(t) :
                 LET tree == rules[i].conditions
                     raw == RawEnv(call[t].venv)
                 IN /\ LeavesSeen(t, i) = RefTrace(tree, raw, <<>>, "leaf")
                    /\ HandlersSeen(t, i) = RefTrace(tree, raw, <<>>, "var")
            /\ (call[t].op = "check" /\ pc[t] = "done") =>
                 LET v == Val(rules[call[t].rule].conditions, RawEnv(call[t].venv))
                 IN IF v = "error" THEN outcome[t].kind = "raise"
                    ELSE /\ outcome[t].kind = "return"
                         /\ outcome[t].value.val.v = (v = "true")

(* a non-empty mapping came in, the first leaf emitted overrides, and the      *)
(* second leaf's handler was called with that leaf's own params only           *)
C11_Witness ==
    \E t \in Threads :
        /\ call[t].op = "check" /\ pc[t] = "done" /\ outcome[t].kind = "return"
        /\ Truthy(call[t].ov)
        /\ \E x, y \in DOMAIN log[t] :
             /\ x < y
             /\ log[t][x].ev = "resolved" /\ log[t][x].ov # PyDict(EmptyDict)
             /\ log[t][y].ev = "var" /\ log[t][y].params = <<Item("p", 1)>>

-----------------------------------------------------------------------------
(* Errors of condition evaluation *)

(* the leaf events of thread t: positions in its log *)
LeafIndexes(t) == {x \in DOMAIN log[t] : log[t][x].ev = "leaf"}

(* the node check_condition was entered for at position x of the log *)
LeafNode(t, x) == NodeAt(rules[log[t][x].rule].conditions, log[t][x].path)

(* events of the leaf entered at position x that follow its entry *)
EventsOfLeaf(t, x, kind) ==
    {y \in DOMAIN log[t] : /\ y > x
                           /\ log[t][y].ev = kind
                           /\ log[t][y].rule = log[t][x].rule
                           /\ log[t][y].path = log[t][x].path}

(* C12: a leaf whose variable name is not defined on the variable provider     *)
(* raises AssertionError "Variable <name> is not defined in class <class>",    *)
(* naming the variable and the provider's class; the handler lookup fails, so  *)
(* no operator comparison is performed for that leaf and nothing follows it.   *)
C12_UndefinedVariable ==
    \A t \in Threads :
        \A x \in LeafIndexes(t) :
            LET node == LeafNode(t, x)
            IN (LeafFields \subseteq DOMAIN node /\ node.name \notin DOMAIN VariableKinds) =>
                 /\ pc[t] = "done"
                 /\ outcome[t].kind = "raise"
                 /\ outcome[t].exc = [type |-> "AssertionError", what |-> "Variable",
                                      name |-> node.name, cls |-> "SomeVariables"]
                 /\ EventsOfLeaf(t, x, "cmp") = {}
                 /\ x = Len(log[t])

(* a first leaf was resolved and compared, the second names a_missing: the     *)
(* evaluation raised                                                           *)
C12_Witness ==
    \E t \in Threads :
        \E x, y \in LeafIndexes(t) :
            /\ x < y
            /\ EventsOfLeaf(t, x, "cmp") # {}
            /\ LeafNode(t, y) = LUndefinedVar
            /\ outcome[t].kind = "raise"
            /\ outcome[t].exc.name = "a_missing"

-----------------------------------------------------------------------------
(* Errors of action dispatch *)

(* the position of the first action of the list the provider does not define, *)
(* 0 when it defines them all                                                  *)
FirstUndefined(actions) ==
    IF \E k \in DOMAIN actions : actions[k].name \notin DOMAIN ActionReturns
    THEN CHOOSE k \in DOMAIN actions :
            /\ actions[k].name \notin DOMAIN ActionReturns
            /\ \A j \in 1..(k - 1) : actions[j].name \in DOMAIN ActionReturns
    ELSE 0

DispatchedRules(t) ==
    {log[t][x].rule : x \in {y \in DOMAIN log[t] : log[t][y].ev = "dispatch"}}

ActionsInvoked(t, i) ==
    LET L == EventsOfRule(t, "act", i) IN [x \in DOMAIN L |-> L[x].k]

(* C13: when the k-th action of the dispatched list is not defined on the      *)
(* action provider, do_actions raises AssertionError "Action <name> is not     *)
(* defined in class <class>"; no action from position k on is ever invoked,    *)
(* and the actions before k were each invoked exactly once, in order.          *)
C13_UndefinedAction ==
    \A t \in Threads :
        \A i \in DispatchedRules(t) :
            LET k == FirstUndefined(rules[i].actions)
            IN k # 0 =>
                 /\ \A x \in DOMAIN ActionsInvoked(t, i) : ActionsInvoked(t, i)[x] = x /\ x < k
                 /\ pc[t] = "done" =>
                      /\ outcome[t].kind = "raise"
                      /\ outcome[t].exc = [type |-> "AssertionError", what |-> "Action",
                                           name |-> rules[i].actions[k].name,
                                           cls |-> "SomeActions"]
                      /\ ActionsInvoked(t, i) = [x \in 1..(k - 1) |-> x]

(* the second of three actions is not defined: the first was invoked, the      *)
(* third was not, and the call raised                                          *)
C13_Witness ==
    \E t \in Threads :
        \E i \in DispatchedRules(t) :
            /\ Len(rules[i].actions) = 3
            /\ FirstUndefined(rules[i].actions) = 2
            /\ pc[t] = "done" /\ outcome[t].kind = "raise"
            /\ ActionsInvoked(t, i) = <<1>>

-----------------------------------------------------------------------------
(* Operator comparison *)

(* the leaf entered at position x got as far as the operator comparison: its   *)
(* variable was resolved and its override map merged                           *)
ComparisonReached(t, x) ==
    \E y \in EventsOfLeaf(t, x, "resolved") : IsDict(log[t][y].ov)

(* C14: comparing a resolved typed value with an operator name that is not in  *)
(* the operator set of its kind raises AssertionError "Operator <name> does    *)
(* not exist for type <kind>"; the variable handler was invoked before, and    *)
(* the evaluation is aborted.                                                  *)
C14_UndefinedOperator ==
    \A t \in Threads :
        \A x \in LeafIndexes(t) :
            LET node == LeafNode(t, x)
            IN (/\ LeafFields \subseteq DOMAIN node
                /\ ComparisonReached(t, x)
                /\ node.operator \notin OperatorSet(VariableKinds[node.name])) =>
                 /\ pc[t] = "done"
                 /\ outcome[t].kind = "raise"
                 /\ outcome[t].exc = [type |-> "AssertionError", what |-> "Operator",
                                      name |-> node.operator,
                                      cls |-> VariableKinds[node.name]]
                 /\ EventsOfLeaf(t, x, "var") # {}
                 /\ EventsOfLeaf(t, x, "cmp") = {}
                 /\ \A y \in DOMAIN log[t] : y > x => log[t][y].path = log[t][x].path

(* what a no-input operator returns for a wrapped raw value: no literal in it *)
NoInputResult(operator, wrapped) ==
    CASE operator = "is_true" -> wrapped.v
      [] operator = "is_false" -> ~wrapped.v

CmpIndexes(t) == {x \in DOMAIN log[t] : log[t][x].ev = "cmp"}

(* the raw value wrapped for the leaf whose comparison is at position y *)
WrappedFor(t, y) ==
    LET x == CHOOSE z \in DOMAIN log[t] :
                 /\ z < y /\ log[t][z].ev = "resolved"
                 /\ log[t][z].rule = log[t][y].rule /\ log[t][z].path = log[t][y].path
    IN log[t][x].wrapped

(* C15: an operator declared no-input is invoked with zero arguments and its   *)
(* result is determined by the wrapped value alone, whatever literal the leaf  *)
(* supplies; every other operator is invoked with exactly the leaf's literal.  *)
C15_NoInputIgnoresLiteral ==
    \A t \in Threads :
        \A y \in CmpIndexes(t) :
            LET e == log[t][y]
                node == NodeAt(rules[e.rule].conditions, e.path)
            IN /\ e.operator = node.operator
               /\ IF e.operator \in NoInputOperators
                  THEN /\ e.args = <<>>
                       /\ e.result = NoInputResult(e.operator, WrappedFor(t, y))
                  ELSE e.args = <<node.value>>

(* is_true with the literal 1 on a boolean variable holding true: invoked with *)
(* no argument, true; and a one-input operator invoked with its literal        *)
C15_Witness ==
    \E t \in Threads :
        \E y \in CmpIndexes(t) :
            LET e == log[t][y]
            IN /\ NodeAt(rules[e.rule].conditions, e.path) = LBoolLit
               /\ e.args = <<>>
               /\ e.result = TRUE
               /\ WrappedFor(t, y) = PyBool(TRUE)

-----------------------------------------------------------------------------
(* Malformed condition nodes *)

NodeIndexes(t) == {x \in DOMAIN log[t] : log[t][x].ev = "node"}

(* the node check_conditions_recursively was entered for at position x *)
NodeEntered(t, x) == NodeAt(rules[log[t][x].rule].conditions, log[t][x].path)

IsEmptyCombinator(node) ==
    \/ DOMAIN node = {"all"} /\ node.all = <<>>
    \/ DOMAIN node = {"any"} /\ node.any = <<>>

RECURSIVE ContainsEmpty(_)
ContainsEmpty(node) ==
    \/ IsEmptyCombinator(node)
    \/ \E i \in DOMAIN Children(node) : ContainsEmpty(Children(node)[i])

(* C16 as stated: evaluating a tree that contains an all/any node with an      *)
(* empty children list raises AssertionError, and no variable handler has been *)
(* invoked in that evaluation when it is raised.                               *)
C16_EmptyAnywhereRaisesFirst ==
    \A t \in Threads :
        \A i \in EvaluatedRules(t) :
            (ContainsEmpty(rules[i].conditions) /\ call[t].op \in {"check", "run"}
                /\ pc[t] = "done") =>
                 /\ outcome[t].kind = "raise"
                 /\ outcome[t].exc = AssertFailed
                 /\ EventsOfRule(t, "var", i) = <<>>

(* C16, amended: when the evaluation enters an all/any node with an empty      *)
(* children list it raises AssertionError there, before anything is evaluated  *)
(* or resolved for that node; the handlers of the nodes evaluated before it    *)
(* have been invoked, and when the empty node is the root none has.            *)
C16_EmptyNodeRaisesWhenEntered ==
    \A t \in Threads :
        \A x \in NodeIndexes(t) :
            IsEmptyCombinator(NodeEntered(t, x)) =>
                /\ pc[t] = "done"
                /\ outcome[t].kind = "raise"
                /\ outcome[t].exc = [type |-> "AssertionError", what |-> "assert"]
                /\ x = Len(log[t])
                /\ log[t][x].path = <<>> => EventsOfRule(t, "var", log[t][x].rule) = <<>>

(* the empty any node stands after a leaf that evaluated true: the leaf's      *)
(* handler was invoked, then the evaluation raised at the empty node           *)
C16_Witness ==
    \E t \in Threads :
        \E x \in NodeIndexes(t) :
            /\ IsEmptyCombinator(NodeEntered(t, x))
            /\ log[t][x].path = <<2>>
            /\ EventsOfRule(t, "var", log[t][x].rule) # <<>>
            /\ outcome[t].kind = "raise"

(* C17: a node in which `all` or `any` appears together with any other key is  *)
(* never resolved as one of the kinds: entering it raises AssertionError       *)
(* before any child of it is evaluated or any variable resolved for it.        *)
C17_MixedKeysRaise ==
    \A t \in Threads :
        \A x \in NodeIndexes(t) :
            LET keys == DOMAIN NodeEntered(t, x)
            IN (keys \cap {"all", "any"} # {} /\ Cardinality(keys) > 1) =>
                 /\ pc[t] = "done"
                 /\ outcome[t].kind = "raise"
                 /\ outcome[t].exc = [type |-> "AssertionError", what |-> "assert"]
                 /\ x = Len(log[t])

(* a node with both keys, entered after its sibling leaf evaluated false: the  *)
(* evaluation raised there                                                     *)
C17_Witness ==
    \E t \in Threads :
        \E x \in NodeIndexes(t) :
            /\ DOMAIN NodeEntered(t, x) = {"all", "any"}
            /\ log[t][x].path = <<2>>
            /\ outcome[t].kind = "raise"

-----------------------------------------------------------------------------
(* Errors under run_all *)

(* running rule i with these handler results raises: its evaluation ends in an *)
(* error, or it triggers and one of its actions is not defined                 *)
EvaluationRaises(i, venv) == Val(rules[i].conditions, venv) = "error"
DispatchRaises(i, venv) == Triggers(i, venv) /\ FirstUndefined(rules[i].actions) # 0

(* the undefined variable the evaluation of rule i ran into, if that is how it ended *)
HitUndefinedVariable(t, i) ==
    \E x \in LeafIndexes(t) :
        /\ log[t][x].rule = i
        /\ LeafFields \subseteq DOMAIN LeafNode(t, x)
        /\ LeafNode(t, x).name \notin DOMAIN VariableKinds

(* C18: run_all does not catch errors.  When evaluating or dispatching rule k  *)
(* raises, run_all raises that error, nothing of a rule after k is evaluated   *)
(* or invoked, and the actions of the rules before k that triggered have been  *)
(* invoked and stay so.                                                        *)
C18_RunAllPropagates ==
    \A t \in Threads :
        call[t].op = "run_all" =>
            \A k \in EvaluatedRules(t) :
                (EvaluationRaises(k, call[t].venv) \/ DispatchRaises(k, call[t].venv)) =>
                    /\ \A x \in DOMAIN log[t] : log[t][x].rule <= k
                    /\ \A j \in 1..(k - 1) :
                         /\ j \in EvaluatedRules(t)
                         /\ Triggers(j, call[t].venv) =>
                              ActionsInvoked(t, j) = [x \in DOMAIN rules[j].actions |-> x]
                    /\ pc[t] = "done" =>
                         /\ outcome[t].kind = "raise"
                         /\ HitUndefinedVariable(t, k) =>
                              outcome[t].exc = [type |-> "AssertionError", what |-> "Variable",
                                                name |-> "a_missing", cls |-> "SomeVariables"]
                         /\ DispatchRaises(k, call[t].venv) =>
                              outcome[t].exc =
                                  [type |-> "AssertionError", what |-> "Action",
                                   name |-> rules[k].actions[FirstUndefined(rules[k].actions)].name,
                                   cls |-> "SomeActions"]

(* the first rule triggered and its action was invoked, the second rule        *)
(* raised: run_all raised and the first rule's action stays invoked            *)
C18_Witness ==
    \E t \in Threads :
        /\ call[t].op = "run_all" /\ pc[t] = "done" /\ outcome[t].kind = "raise"
        /\ EvaluatedRules(t) = {1, 2}
        /\ ActionsInvoked(t, 1) # <<>>
        /\ EvaluationRaises(2, call[t].venv)

-----------------------------------------------------------------------------
(* Concurrent evaluations *)

(* the params the action invoked at position x of thread t's log receives when *)
(* thread t's call runs alone from the rule list it was given                  *)
AloneParams(t, x) ==
    LET e == log[t][x]
    IN MapMerge(MapMerge(PyMap(DeclaredParams(pre[t][e.rule].actions[e.k])),
                         DispatchedTo(t, x)),
                PyMap(PreviousReturn(e)))

(* C19: two evaluations of the same rule that run concurrently, each against   *)
(* its own provider instances, do not interfere: every action invocation gets  *)
(* the params it would get if its evaluation ran alone, so no override key of  *)
(* one evaluation appears in an action call of the other.                      *)
C19_ConcurrentRunsDoNotInterfere ==
    \A t \in Threads :
        \A x \in ActIndexes(t) :
            /\ DOMAIN AsMap(log[t][x].params) = DOMAIN AloneParams(t, x)
            /\ AsMap(log[t][x].params) = AloneParams(t, x)

-----------------------------------------------------------------------------
(* Variable resolution *)

VarIndexes(t) == {x \in DOMAIN log[t] : log[t][x].ev = "var"}

(* C20: variable resolution distinguishes the two result shapes.  For a pair   *)
(* (rawValue, overrides) the typed value wraps rawValue and the override map   *)
(* is the second element, or {} when that is None or empty; for a bare raw     *)
(* value of any kind, a sequence-valued one included, the typed value wraps    *)
(* the whole value and the override map is {}.                                 *)
C20_ResultShapes ==
    \A t \in Threads :
        \A x \in VarIndexes(t) :
            LET result == call[t].venv[log[t][x].name]
                resolved == EventsOfLeaf(t, x, "resolved")
            IN /\ resolved # {}
               /\ \A y \in resolved :
                    IF result.tag = "tuple"
                    THEN /\ log[t][y].wrapped = result.val
                         /\ log[t][y].ov = IF Truthy(result.ov) THEN result.ov
                                           ELSE PyDict(EmptyDict)
                    ELSE /\ log[t][y].wrapped = result
                         /\ log[t][y].ov = PyDict(EmptyDict)

-----------------------------------------------------------------------------
(* Handler params *)

(* the params check_condition hands to the handler of the leaf `node` *)
ParamsOf(node) == IF "params" \in DOMAIN node THEN node.params ELSE PyDict(EmptyDict)

(* the named arguments the handler of `name` requires: those of its signature *)
(* without default and those its body reads from its keyword dictionary       *)
RequiredBy(name) == VariableRequired[name] \cup VariableReads[name]

(* C21: resolving a variable whose handler requires a named argument that is   *)
(* absent from the leaf's params, params being a mapping the handler otherwise *)
(* accepts, raises the MissingParam error (KeyError "Expected params (...)     *)
(* were not provided!") naming that parameter, which is not the InvalidParams  *)
(* error raised for params that is no mapping.                                 *)
C21_MissingParam ==
    \A t \in Threads :
        \A x \in LeafIndexes(t) :
            LET node == LeafNode(t, x)
                keys == DictKeys(ParamsOf(node).d)
            IN (/\ LeafFields \subseteq DOMAIN node
                /\ node.name \in DOMAIN VariableKinds
                /\ IsDict(ParamsOf(node))
                /\ node.name \in VariableKeywords \/ keys \subseteq VariableParams[node.name]
                /\ RequiredBy(node.name) \ keys # {}) =>
                    /\ pc[t] = "done"
                    /\ outcome[t].kind = "raise"
                    /\ \E k \in RequiredBy(node.name) \ keys :
                            outcome[t].exc = [type |-> "KeyError",
                                              what |-> "Expected params were not provided!",
                                              name |-> k]
                    /\ outcome[t].exc # ParamsTypeError

-----------------------------------------------------------------------------
(* Registration metadata *)

(* the labels of the model's identifiers, written out *)
PrettyOf(name) ==
    CASE name = <<"d", "o", "_", "i", "t">> -> <<"D", "o", " ", "I", "t">>
      [] name = <<"f", "o", "o">> -> <<"F", "o", "o">>
      [] name = <<"t", "e", "n">> -> <<"T", "e", "n">>
      [] name = <<"b", "a", "_", "r">> -> <<"B", "a", " ", "R">>

(* the members of the class written with the decorator *)
WrittenWith(decorator) ==
    {n \in DOMAIN members : members[n].written.decorator = decorator}

(* a label was given: Python's `or` takes None and the empty string alike *)
LabelGiven(label) == label # PyNone /\ label # PyStr(<<>>)

(* the list of {label, name, fieldType} entries of a mapping name -> fieldType *)
EntriesOf(mapping, stored) ==
    /\ stored.tag = "seq" /\ stored.py = "list"
    /\ Len(stored.elems) = Len(mapping.d)
    /\ \A i \in DOMAIN mapping.d :
            stored.elems[i] = [label |-> PyStr(PrettyOf(mapping.d[i][1])),
                               name |-> PyStr(mapping.d[i][1]),
                               fieldType |-> mapping.d[i][2]]

(* C22: rule_action registers the function with the explicit label when one is *)
(* given and the title-cased function name otherwise; a params mapping         *)
(* name -> fieldType is stored as the list of {label, name, fieldType}         *)
(* entries, a params list unchanged; get_all_actions returns one               *)
(* {name, label, params} entry for exactly the decorated methods of the class. *)
C22_ActionRegistration ==
    /\ \A n \in WrittenWith("rule_action") :
            LET func == members[n]
                written == func.written
            IN /\ func.attrs.is_rule_action = TRUE
               /\ func.attrs.label = IF LabelGiven(written.label) THEN written.label
                                     ELSE PyStr(PrettyOf(n))
               /\ IF written.params.tag = "dict"
                  THEN EntriesOf(written.params, func.attrs.params)
                  ELSE func.attrs.params = written.params
    /\ catalog.of = "actions" =>
            /\ Len(catalog.entries) = Cardinality(WrittenWith("rule_action"))
            /\ {catalog.entries[i].name.s : i \in DOMAIN catalog.entries}
                    = WrittenWith("rule_action")
            /\ \A i \in DOMAIN catalog.entries :
                    LET entry == catalog.entries[i]
                    IN /\ DOMAIN entry = {"name", "label", "params"}
                       /\ entry.label = members[entry.name.s].attrs.label
                       /\ entry.params = members[entry.name.s].attrs.params

(* a class with an action declared without label and with a params mapping,    *)
(* next to a member that is no action: the catalog lists the action alone,     *)
(* labelled "Do It", with its two entries                                      *)
C22_Witness ==
    /\ catalog.of = "actions"
    /\ Len(catalog.entries) = 1
    /\ Cardinality(DOMAIN members) = 2
    /\ catalog.entries[1].label = PyStr(<<"D", "o", " ", "I", "t">>)
    /\ catalog.entries[1].params.tag = "seq"
    /\ Len(catalog.entries[1].params.elems) = 2
    /\ catalog.entries[1].params.elems[2].label = PyStr(<<"B", "a", " ", "R">>)

(* C23: a registered variable exposes its declared params as the ordered list  *)
(* of {name, label, fieldType} entries: after rule_variable(field_type,        *)
(* params = mapping name -> fieldType) the function's params attribute, and    *)
(* the params entry of get_all_variables, is that normalized list, as for      *)
(* actions.                                                                    *)
C23_VariableParamsNormalized ==
    /\ \A n \in WrittenWith("rule_variable") :
            members[n].written.params.tag = "dict" =>
                EntriesOf(members[n].written.params, members[n].attrs.params)
    /\ catalog.of = "variables" =>
            \A i \in DOMAIN catalog.entries :
                LET written == members[catalog.entries[i].name.s].written
                IN written.params.tag = "dict" =>
                        EntriesOf(written.params, catalog.entries[i].params)

(* C24: a function decorated with rule_variable caches its value: after its    *)
(* first call returned v, every later call returns v, whatever became of the   *)
(* data the function reads.                                                    *)
C24_VariableCachesValue ==
    \A i, j \in DOMAIN returns :
        (i < j /\ returns[i].name = returns[j].name) =>
            returns[j].value = returns[i].value

-----------------------------------------------------------------------------
(* Overrides at a combinator *)

(* the override map a child emits when evaluated: the fold, in evaluation      *)
(* order, of the override maps of the handlers its evaluation invokes          *)
Emitted(node, venv) ==
    LET V == RefTrace(node, RawEnv(venv), <<>>, "var")
    IN FoldOverrides(<<>>, V, venv, Len(V))

(* the last child a combinator evaluates: the first whose value is not goesOn *)
StopIndex(children, venv, goesOn) ==
    LET stops == {i \in DOMAIN children : Val(children[i], RawEnv(venv)) # goesOn}
    IN IF stops = {} THEN Len(children) ELSE CHOOSE i \in stops : \A j \in stops : i <= j

RECURSIVE MergedUpTo(_, _, _, _)
MergedUpTo(base, children, venv, k) ==
    IF k = 0 THEN base
    ELSE MapMerge(MergedUpTo(base, children, venv, k - 1), Emitted(children[k], venv))

(* C25: a combinator merges the overrides of every child it evaluated,         *)
(* whatever the child's boolean: when all returns at a false child or any at a *)
(* true child, the overrides returned hold what that child and the children    *)
(* before it emitted (right-biased, over the incoming overrides), and nothing  *)
(* of the children that were skipped.                                          *)
C25_MergeWhateverTheResult ==
    \A t \in Threads :
        (/\ Completed(t) /\ call[t].op = "check"
         /\ WellShaped(call[t].venv)
         /\ DOMAIN rules[call[t].rule].conditions \in {{"all"}, {"any"}}) =>
            LET tree == rules[call[t].rule].conditions
                venv == call[t].venv
                cs == Children(tree)
                k == StopIndex(cs, venv, IF DOMAIN tree = {"all"} THEN "true" ELSE "false")
                incoming == PyMap(call[t].ov)
                got == AsMap(outcome[t].value.ov.d)
            IN /\ got = MergedUpTo(incoming, cs, venv, k)
               /\ \A i \in 1..k : DOMAIN Emitted(cs[i], venv) \subseteq DOMAIN got
               /\ DOMAIN Emitted(cs[k], venv) # {} =>
                    \A key \in DOMAIN Emitted(cs[k], venv) : got[key] = Emitted(cs[k], venv)[key]
               /\ \A key \in DOMAIN got :
                    \/ key \in DOMAIN incoming
                    \/ \E i \in 1..k : key \in DOMAIN Emitted(cs[i], venv)

(* an all node returned false at its first child, which emitted {a: 1}; the    *)
(* second child, whose handler would have emitted a and b, was skipped: the    *)
(* overrides returned are {a: 1}                                               *)
C25_Witness ==
    \E t \in Threads :
        /\ Completed(t) /\ call[t].op = "check" /\ call[t].ov = PyNone
        /\ rules[call[t].rule].conditions = AllOf(<<LBool, LNum>>)
        /\ call[t].venv["a_bool"] = PyTuple(PyBool(FALSE), PyDict(<<Item("a", 1)>>))
        /\ call[t].venv["a_num"].tag = "tuple"
        /\ outcome[t].value = PyTuple(PyBool(FALSE), PyDict(<<Item("a", 1)>>))
        /\ Len(EventsOf(t, "var")) = 1

-----------------------------------------------------------------------------
(* One leaf *)

-----------------------------------------------------------------------------
(* Dispatch *)

(* C27: when no error occurs do_actions invokes every action of the list       *)
(* exactly once, in list order, and nothing else on the provider; an action    *)
(* without a params entry is invoked with no declared arguments (only the      *)
(* override params and a carried mapping reach it); an empty list invokes      *)
(* nothing, and a triggered rule with an empty action list makes run return    *)
(* true.                                                                       *)
C27_DispatchInvokesEachOnce ==
    \A t \in Threads :
        /\ (Completed(t) /\ call[t].op = "do_actions") =>
            LET actions == rules[call[t].rule].actions
                acts == EventsOf(t, "act")
            IN /\ Len(acts) = Len(actions)
               /\ log[t] = <<DispatchEvent(call[t].rule, OrEmptyDict(call[t].ov))>> \o acts
               /\ \A k \in DOMAIN acts :
                    /\ acts[k].k = k
                    /\ acts[k].name = actions[k].name
                    /\ "params" \notin DOMAIN actions[k] =>
                            AsMap(acts[k].params)
                                = MapMerge(PyMap(call[t].ov),
                                           IF k > 1 THEN PyMap(ActionReturns[actions[k - 1].name])
                                           ELSE <<>>)
        /\ (Completed(t) /\ call[t].op = "run"
                /\ Triggers(call[t].rule, call[t].venv)
                /\ rules[call[t].rule].actions = <<>>) =>
                    /\ EventsOf(t, "act") = <<>>
                    /\ outcome[t].value = PyBool(TRUE)

(* do_actions returned after invoking three actions in order, the first of     *)
(* which has no params entry and received the override params alone            *)
C27_Witness ==
    \E t \in Threads :
        /\ Completed(t) /\ call[t].op = "do_actions"
        /\ call[t].ov = PyDict(<<Item("a", 2)>>)
        /\ LET acts == EventsOf(t, "act")
           IN /\ Len(acts) = 3
              /\ "params" \notin DOMAIN rules[call[t].rule].actions[1]
              /\ acts[1].params = <<Item("a", 2)>>
              /\ acts[3].k = 3

-----------------------------------------------------------------------------
(* Malformed leaves *)

(* a node without combinator key that lacks a leaf field *)
LacksLeafField(node) ==
    /\ "all" \notin DOMAIN node /\ "any" \notin DOMAIN node
    /\ ~(LeafFields \subseteq DOMAIN node)

(* C28: a node that has no combinator key and lacks a required leaf field      *)
(* (name, operator or value) fails with the same structural-validation error   *)
(* as the other malformed shapes (the AssertionError of the empty and of the   *)
(* mixed node), and fails before the variable handler of that node is invoked. *)
C28_MissingLeafFieldIsMalformed ==
    \A t \in Threads :
        \A x \in NodeIndexes(t) :
            LacksLeafField(NodeEntered(t, x)) =>
                /\ pc[t] = "done"
                /\ outcome[t].kind = "raise"
                /\ outcome[t].exc = AssertFailed
                /\ \A y \in DOMAIN log[t] :
                        (y > x /\ log[t][y].ev = "var") => log[t][y].path # log[t][x].path

-----------------------------------------------------------------------------
(* Errors under run *)

(* the last thing the evaluation did before it ended *)
LastEvent(t) == log[t][Len(log[t])]
LastNode(t) == NodeAt(rules[LastEvent(t).rule].conditions, LastEvent(t).path)

(* C29: when an error is raised while a rule's conditions are evaluated        *)
(* (undefined variable, undefined operator, bad params, malformed node), run   *)
(* raises that error to its caller and returns no boolean, none of the rule's  *)
(* actions is invoked, and no variable handler of the rule is invoked after    *)
(* the error.                                                                  *)
C29_RunPropagatesEvaluationError ==
    \A t \in Threads :
        (call[t].op = "run" /\ EvaluationRaises(call[t].rule, call[t].venv)) =>
            LET i == call[t].rule
                tree == rules[i].conditions
            IN /\ EventsOf(t, "dispatch") = <<>>
               /\ EventsOf(t, "act") = <<>>
               /\ pc[t] = "done" =>
                    /\ outcome[t].kind = "raise"
                    /\ "value" \notin DOMAIN outcome[t]
                    /\ LastEvent(t).ev \in {"node", "leaf", "var", "resolved"}
                    /\ WellShaped(call[t].venv) =>
                            HandlersSeen(t, i) = RefTrace(tree, RawEnv(call[t].venv), <<>>, "var")
                    /\ (LastEvent(t).ev = "node") => outcome[t].exc = AssertFailed
                    /\ (LastEvent(t).ev = "leaf" /\ LeafFields \subseteq DOMAIN LastNode(t)) =>
                            IF ~IsDict(ParamsOf(LastNode(t)))
                            THEN outcome[t].exc.type = "TypeError"
                            ELSE IF LastNode(t).name \notin DOMAIN VariableKinds
                            THEN outcome[t].exc = [type |-> "AssertionError", what |-> "Variable",
                                                   name |-> LastNode(t).name,
                                                   cls |-> "SomeVariables"]
                            ELSE outcome[t].exc.type = "TypeError"
                    /\ (/\ LastEvent(t).ev = "resolved"
                        /\ IsDict(LastEvent(t).ov)
                        /\ LastNode(t).operator \notin ObjectAttributes) =>
                            outcome[t].exc = [type |-> "AssertionError", what |-> "Operator",
                                              name |-> LastNode(t).operator,
                                              cls |-> VariableKinds[LastNode(t).name]]

(* run on a rule with an action: the first leaf was evaluated, the second      *)
(* names an undefined operator, a third leaf follows; run raised, the third    *)
(* leaf's handler was never invoked and no action was                          *)
C29_Witness ==
    \E t \in Threads :
        /\ call[t].op = "run" /\ pc[t] = "done"
        /\ rules[call[t].rule].conditions = AllOf(<<LNum, LUndefinedOp, LBool>>)
        /\ rules[call[t].rule].actions # <<>>
        /\ outcome[t].kind = "raise"
        /\ outcome[t].exc.name = "is_bogus"
        /\ Len(EventsOf(t, "var")) = 2
        /\ EventsOf(t, "act") = <<>>

-----------------------------------------------------------------------------
(* Overrides across the rules of run_all *)

(* the override maps emitted by the handlers invoked for rule k, folded *)
OwnOverrides(t, k) ==
    LET V == EventsOfRule(t, "var", k)
    IN FoldOverrides(<<>>, V, call[t].venv, Len(V))

(* the override keys emitted for the other rules of the call *)
ForeignKeys(t, k) ==
    UNION {DOMAIN OwnOverrides(t, j) : j \in EvaluatedRules(t) \ {k}}

(* C30: in run_all every rule starts its evaluation from empty overrides: the  *)
(* override params its actions get are produced by the leaves evaluated in     *)
(* the rule's own tree, and no override key emitted while another rule of the  *)
(* list was evaluated reaches its actions.                                     *)
C30_RulesStartFromEmptyOverrides ==
    \A t \in Threads :
        call[t].op = "run_all" =>
            \A x \in DOMAIN log[t] :
                LET e == log[t][x]
                IN /\ e.ev = "eval" => e.incoming = PyNone
                   /\ (e.ev = "leaf" /\ x > 1 /\ log[t][x - 1].ev = "node"
                            /\ log[t][x - 1].path = <<>>) => e.incoming = EmptyDict
                   /\ e.ev = "dispatch" => AsMap(e.ov) = OwnOverrides(t, e.rule)
                   /\ e.ev = "act" =>
                        LET own == MapMerge(MapMerge(DeclaredIn(pre[t], e),
                                                     OwnOverrides(t, e.rule)),
                                            PyMap(e.carried))
                        IN /\ AsMap(e.params) = own
                           /\ \A key \in ForeignKeys(t, e.rule) :
                                key \in DOMAIN AsMap(e.params) =>
                                    key \in DOMAIN own

(* run_all on two rules: the first rule's leaf emitted the override key a and  *)
(* its action got it; the second rule triggered without emitting anything and  *)
(* its action was invoked without a                                            *)
C30_Witness ==
    \E t \in Threads :
        /\ Completed(t) /\ call[t].op = "run_all"
        /\ Len(rules) = 2
        /\ "a" \in DOMAIN OwnOverrides(t, 1)
        /\ OwnOverrides(t, 2) = <<>>
        /\ \E x, y \in ActIndexes(t) :
                /\ log[t][x].rule = 1 /\ "a" \in DOMAIN AsMap(log[t][x].params)
                /\ log[t][y].rule = 2 /\ "a" \notin DOMAIN AsMap(log[t][y].params)

-----------------------------------------------------------------------------
(* Frame of a condition evaluation called with override_params                *)

(* a call of check_conditions_recursively (check_condition for a leaf) that the *)
(* caller made with a mapping of its own has ended                              *)
CheckEnded(t) == pc[t] = "done" /\ call[t].op = "check" /\ call[t].ov # PyNone

(* the mapping the caller passed has the keys and values it had at the call *)
CallerMappingUnchanged(t) == PyMap(outcome[t].caller) = PyMap(call[t].ov)

(* the mapping objects the variable handlers returned hold what they returned *)
HandlerMappingsUnchanged(t) ==
    \A x \in DOMAIN log[t] :
        LET e == log[t][x]
        IN (e.ev = "resolved" /\ e.ref # 0) =>
                AsMap(outcome[t].heap[e.ref]) = AsMap(e.ov.d)

(* C31: check_conditions_recursively and check_condition leave the mapping the *)
(* caller supplied as override_params unchanged, empty or not: after the call  *)
(* it has the same keys and values as before, the merged overrides being       *)
(* delivered through the returned pair only; and no mapping returned by a      *)
(* variable handler is modified.                                               *)
C31_CallerOverridesUnchanged ==
    \A t \in Threads :
        CheckEnded(t) => CallerMappingUnchanged(t) /\ HandlerMappingsUnchanged(t)

-----------------------------------------------------------------------------
(* Handlers the decorators did not register                                   *)

(* the leaves entered that name an unmarked attribute of the variable provider *)
UnmarkedLeaves(t) ==
    {x \in LeafIndexes(t) :
        /\ LeafFields \subseteq DOMAIN LeafNode(t, x)
        /\ LeafNode(t, x).name \in UnmarkedVariableAttributes}

(* the dispatched rules whose first action that is no rule action of the       *)
(* provider is an unmarked attribute of it                                     *)
UnmarkedDispatches(t) ==
    {i \in DispatchedRules(t) :
        /\ FirstUndefined(rules[i].actions) # 0
        /\ rules[i].actions[FirstUndefined(rules[i].actions)].name
                \in UnmarkedActionAttributes}

(* C32: the engine calls only handlers registered through the decorators: an   *)
(* action name that resolves to an attribute of the action provider not marked *)
(* is_rule_action, and a variable name that resolves to an attribute not       *)
(* marked is_rule_variable, is treated as undefined (the call raises the       *)
(* AssertionError of an undefined action or variable) and is never invoked.    *)
C32_OnlyRegisteredHandlersCalled ==
    \A t \in Threads :
        /\ \A x \in DOMAIN log[t] :
                /\ log[t][x].ev = "act" => log[t][x].name \notin UnmarkedActionAttributes
                /\ log[t][x].ev = "var" => log[t][x].name \notin UnmarkedVariableAttributes
        /\ \A x \in UnmarkedLeaves(t) :
                /\ pc[t] = "done"
                /\ outcome[t] = Raised(UndefinedVariable(LeafNode(t, x).name))
        /\ \A i \in UnmarkedDispatches(t) :
                pc[t] = "done" =>
                    outcome[t] = Raised(UndefinedAction(
                                    rules[i].actions[FirstUndefined(rules[i].actions)].name))

=============================================================================
